---- MODULE Spec2Model ----
(***************************************************************************)
(* ASCIIGround: the pattern generators (Perlin noise, rain, static noise,  *)
(* dummy), the renderer back-ends and the ASCIIRenderer coordinator.       *)
(*                                                                         *)
(* Representation of JavaScript numbers:                                   *)
(*   - pixel positions, grid indices, code points: integers;               *)
(*   - fractions (noise values, opacity, density, frequency): exact        *)
(*     rationals <<numerator, denominator>> with a positive denominator;   *)
(*   - time stamps: integer milliseconds; animationTime is kept in         *)
(*     milliseconds too (the code keeps seconds: ms / 1000);               *)
(*   - a rain drop's y: integer multiples of 1/2000 row, so that           *)
(*     y += speed * animationSpeed * (deltaMs / 1000) stays exact for      *)
(*     speeds that are multiples of 1/2;                                   *)
(*   - undefined: the value Undefined; a glyph is its code point.          *)
(***************************************************************************)
EXTENDS Integers, Sequences, FiniteSets, TLC

\* ------------------------------------------------------------------ bounds
\* Largest grid a generator is driven on directly, in columns and rows.
MaxCols == 4
MaxRows == 2
\* Largest padding of those grids.
MaxPadding == 1
\* Calls made on one coordinator, or on one generator driven directly.
MaxOps == 3

Undefined == -1

\* The number NaN where an integer is expected (a column, a position).
NaN == -1048576

\* The number Infinity where an integer is expected (a column count).
Infinity == 1048576

\* -------------------------------------------------------------- arithmetic
Abs(n) == IF n < 0 THEN -n ELSE n

Max(a, b) == IF a >= b THEN a ELSE b

Min(a, b) == IF a <= b THEN a ELSE b

RECURSIVE Gcd(_, _)
Gcd(a, b) == IF b = 0 THEN a ELSE Gcd(b, a % b)

\* A rational in lowest terms with a positive denominator. A division by
\* zero gives what it gives in a double: 0 / 0 is NaN, written <<0, 0>>, and
\* x / 0 is an infinity, written <<1, 0>> or <<-1, 0>>.
Rat(n, d) ==
    LET s == IF d < 0 THEN -1 ELSE 1
        g == Gcd(Abs(n), Abs(d))
    IN  IF d = 0 THEN <<IF n > 0 THEN 1 ELSE IF n < 0 THEN -1 ELSE 0, 0>>
        ELSE <<(s * n) \div g, (s * d) \div g>>

\* NaN as a rational, and Number.isNaN.
RNaN == <<0, 0>>

RIsNaN(a) == a = RNaN

RInt(n) == <<n, 1>>

RAdd(a, b) == Rat(a[1] * b[2] + b[1] * a[2], a[2] * b[2])

RSub(a, b) == Rat(a[1] * b[2] - b[1] * a[2], a[2] * b[2])

RMul(a, b) == Rat(a[1] * b[1], a[2] * b[2])

RDiv(a, b) == Rat(a[1] * b[2], a[2] * b[1])

RNeg(a) == <<-a[1], a[2]>>

RLess(a, b) == a[1] * b[2] < b[1] * a[2]

RLeq(a, b) == ~RIsNaN(a) /\ ~RIsNaN(b) /\ a[1] * b[2] <= b[1] * a[2]

\* Math.max and Math.min: NaN when either argument is NaN.
RMax(a, b) == IF RIsNaN(a) \/ RIsNaN(b) THEN RNaN ELSE IF RLess(a, b) THEN b ELSE a

RMin(a, b) == IF RIsNaN(a) \/ RIsNaN(b) THEN RNaN ELSE IF RLess(b, a) THEN b ELSE a

\* Math.floor of a rational (\div rounds towards minus infinity).
RFloor(a) == a[1] \div a[2]

\* x - Math.floor(x)
RFrac(a) == RSub(a, RInt(RFloor(a)))

\* Bitwise exclusive or of two non-negative integers (JavaScript ^ on
\* values that fit 31 bits).
RECURSIVE BitXor(_, _)
BitXor(a, b) ==
    IF a = 0 THEN b
    ELSE IF b = 0 THEN a
    ELSE 2 * BitXor(a \div 2, b \div 2) + (((a % 2) + (b % 2)) % 2)

\* n & 255 for any integer n (two's complement).
And255(n) == n % 256

SeqSum(s) ==
    LET RECURSIVE Go(_)
        Go(i) == IF i = 0 THEN 0 ELSE s[i] + Go(i - 1)
    IN  Go(Len(s))

\* ---------------------------------------------------------- seeded random
\* createSeededRandom: state = seed === 0 ? 1 : seed;
\*                     state = (state * 16807) % 2147483647.
LcgModulus == 2147483647

LcgMultiplier == 16807

SeedState(seed) == IF seed = 0 THEN 1 ELSE seed

\* (s * 16807) % 2147483647 for 0 <= s < 2147483647, computed with Schrage's
\* decomposition so that no intermediate product exceeds 31 bits (the code
\* computes the product exactly in a double).
SchrageStep(s) ==
    LET q == LcgModulus \div LcgMultiplier
        r == LcgModulus % LcgMultiplier
        t == LcgMultiplier * (s % q) - r * (s \div q)
    IN  IF t < 0 THEN t + LcgModulus ELSE t

\* JavaScript % takes the sign of the dividend.
NextRandomState(s) == IF s >= 0 THEN SchrageStep(s) ELSE -SchrageStep(-s)

\* Math.floor((state / 2147483647) * n) for 0 <= state < 2147483647 and
\* 0 <= n <= 256, without exceeding 31 bits.
FloorScaled(state, n) ==
    LET a  == state \div 65536
        b  == state % 65536
        X  == n * a
        x1 == X \div 32768
        x0 == X % 32768
        R1 == x1 + x0 * 65536
        R2 == n * b
    IN  x1 + (IF R1 >= LcgModulus - R2 THEN 1 ELSE 0)

\* Math.floor(randomizer() * n) for a state of either sign.
RandomIndex(state, n) ==
    IF state >= 0 THEN FloorScaled(state, n)
    ELSE -FloorScaled(-state, n) - (IF n = 0 THEN 0 ELSE 1)

\* ------------------------------------------------------------ data model
\* An absent optional number (opacity, scale, rotation).
UndefinedNum == <<0, -1>>

\* The code point of ' '.
Space == 32

\* A CharacterData entry; color "" stands for an absent color.
CharacterData(x, y, char, color, opacity) ==
    [x |-> x, y |-> y, char |-> char, color |-> color, opacity |-> opacity,
     scale |-> UndefinedNum, rotation |-> UndefinedNum]

\* PatternContext as ASCIIRenderer.render builds it (times in milliseconds).
PatternContext(animationTime, deltaTime, region, isAnimating, animationSpeed) ==
    [time |-> animationTime, deltaTime |-> deltaTime,
     animationTime |-> animationTime, region |-> region,
     isAnimating |-> isAnimating, animationSpeed |-> animationSpeed]

\* ------------------------------------------------------ region calculator
\* The host's measureText(char).width under the font `${fontSize}px family`:
\* glyphs of WideGlyphs are full-width, every other glyph half-width.
WideGlyphs == {87, 12450}

\* Glyphs without advance width (U+200B, the zero width space).
ZeroWidthGlyphs == {8203}

MeasureTextWidth(char, fontSize) ==
    IF char \in ZeroWidthGlyphs THEN 0
    ELSE IF char \in WideGlyphs THEN fontSize ELSE fontSize \div 2

\* The host's actualBoundingBoxAscent + actualBoundingBoxDescent of the
\* joined glyph string: nothing for the empty string.
MeasureTextHeight(characters, fontSize) ==
    IF Len(characters) = 0 THEN 0 ELSE fontSize

\* ASCIIRenderer._calculateSpacing: [charWidth, charHeight, spacingX, spacingY].
\* fontSize * 1.2 is exact for the font sizes used (multiples of 5).
CalculateSpacing(characters, options) ==
    LET RECURSIVE MaxWidth(_)
        MaxWidth(i) ==
            IF i = 0 THEN 0
            ELSE Max(MaxWidth(i - 1), MeasureTextWidth(characters[i], options.fontSize))
        charWidth == MaxWidth(Len(characters))
        measuredHeight == MeasureTextHeight(characters, options.fontSize)
        charHeight == Max(measuredHeight, options.fontSize)
        charSpacingX == IF options.charSpacingX # Undefined /\ options.charSpacingX > 0
                        THEN options.charSpacingX ELSE charWidth
        charSpacingY == IF options.charSpacingY # Undefined /\ options.charSpacingY > 0
                        THEN options.charSpacingY
                        ELSE Max(charHeight, (options.fontSize * 12) \div 10)
    IN  <<charWidth, charHeight, charSpacingX, charSpacingY>>

\* Math.floor(size / spacing) for size >= 0 and spacing >= 0: a division by
\* zero gives Infinity, 0 / 0 gives NaN, and Math.floor keeps both.
FloorOfQuotient(size, spacing) ==
    IF spacing # 0 THEN size \div spacing
    ELSE IF size = 0 THEN NaN ELSE Infinity

\* count - padding: Infinity and NaN stay what they are.
LessPadding(count, padding) ==
    IF count = NaN \/ count = Infinity THEN count ELSE count - padding

\* ASCIIRenderer._calculateRegion.
CalculateRegion(width, height, characters, options) ==
    LET sp   == CalculateSpacing(characters, options)
        cols == FloorOfQuotient(width, sp[3])
        rows == FloorOfQuotient(height, sp[4])
    IN  [startColumn |-> options.padding,
         endColumn   |-> LessPadding(cols, options.padding),
         startRow    |-> options.padding,
         endRow      |-> LessPadding(rows, options.padding),
         columns     |-> cols,
         rows        |-> rows,
         charWidth   |-> sp[1],
         charHeight  |-> sp[2],
         charSpacingX |-> sp[3],
         charSpacingY |-> sp[4],
         canvasWidth  |-> width,
         canvasHeight |-> height]

\* _calculateRegion measuring the glyphs in the font the temp context held
\* before the call, and assigning the font afterwards.
CalculateRegionOnStaleFont(font, width, height, characters, options) ==
    <<options.fontSize,
      CalculateRegion(width, height, characters, [options EXCEPT !.fontSize = font])>>

\* _calculateRegion on the temp context, whose font (here its size) is state
\* that outlives the call: <<the context's font after the call, the
\* region>>. The font is assigned first, so the glyphs are measured in the
\* font of the options, which is what CalculateSpacing measures in.
CalculateRegionOn(font, width, height, characters, options) ==
    <<options.fontSize, CalculateRegion(width, height, characters, options)>>

\* --------------------------------------------------------------- the hash
\* color.charCodeAt(0) || 0: every color of the model starts with '#'.
ColorCode(color) == IF color = "" THEN 0 ELSE 35

\* Math.floor(v * 100) with the destructuring default for an absent value.
Percent(v, default) ==
    IF v = UndefinedNum THEN default * 100 ELSE RFloor(RMul(v, RInt(100)))

HashTerm(c) ==
    BitXor(IF c.x = NaN THEN 0 ELSE c.x * 31 + c.y * 17, c.char)
        + ColorCode(c.color) * 13
        + Percent(c.opacity, 1) * 7
        + Percent(c.scale, 1) * 5
        + Percent(c.rotation, 0) * 3

\* ASCIIRenderer._hash: hash ^= term, for each entry in list order.
Hash(list) ==
    LET RECURSIVE Go(_)
        Go(i) == IF i = 0 THEN 0 ELSE BitXor(Go(i - 1), HashTerm(list[i]))
    IN  Go(Len(list))

\* ------------------------------------------------------------ DummyPattern
DummyGenerate(p, ctx) == <<>>

\* ------------------------------------------------------ StaticNoisePattern
\* The two nested loops run row = startRow..endRow and, inside, column =
\* startColumn..endColumn, both bounds included; one draw per cell.
\* StaticNoisePattern.generate seeding its generator from the unfloored
\* animationTime.
StaticNoiseGenerateEveryInstant(p, ctx) ==
    LET region == ctx.region
        chars  == p.options.characters
        width  == Max(0, region.endColumn - region.startColumn + 1)
        height == Max(0, region.endRow - region.startRow + 1)
        RECURSIVE Cells(_, _)
        Cells(k, state) ==
            IF k >= width * height THEN <<>>
            ELSE LET s == NextRandomState(state)
                     charIndex == RandomIndex(s, Len(chars))
                     char == IF charIndex >= 0 /\ charIndex < Len(chars)
                             THEN chars[charIndex + 1] ELSE Space
                     row == region.startRow + (k \div width)
                     col == region.startColumn + (k % width)
                 IN  <<CharacterData(col * region.charSpacingX,
                                     row * region.charSpacingY,
                                     char, "", UndefinedNum)>>
                         \o Cells(k + 1, s)
    IN  Cells(0, SeedState(p.options.seed + ctx.animationTime))

StaticNoiseGenerate(p, ctx) ==
    LET region == ctx.region
        chars  == p.options.characters
        width  == Max(0, region.endColumn - region.startColumn + 1)
        height == Max(0, region.endRow - region.startRow + 1)
        RECURSIVE Cells(_, _)
        Cells(k, state) ==
            IF k >= width * height THEN <<>>
            ELSE LET s == NextRandomState(state)
                     charIndex == RandomIndex(s, Len(chars))
                     char == IF charIndex >= 0 /\ charIndex < Len(chars)
                             THEN chars[charIndex + 1] ELSE Space
                     row == region.startRow + (k \div width)
                     col == region.startColumn + (k % width)
                 IN  <<CharacterData(col * region.charSpacingX,
                                     row * region.charSpacingY,
                                     char, "", UndefinedNum)>>
                         \o Cells(k + 1, s)
    IN  Cells(0, SeedState(p.options.seed + (ctx.animationTime \div 100)))

\* ------------------------------------------------------ PerlinNoisePattern
\* PerlinNoisePattern._generatePermutations: a Fisher-Yates shuffle of
\* 0..255 driven by the seeded generator, then the table doubled.
\* (JavaScript index i is sequence index i + 1.)
GeneratePermutations(seed) ==
    LET \* table[j]: an element for j >= 0; for a negative j (a generator
        \* seeded with a negative number returns negative values) the
        \* property of that name, undefined until it is assigned
        Get(st, j) == IF j >= 0 THEN st[2][j + 1] ELSE st[3][-j]
        \* one iteration of the loop body, on <<generator state, table,
        \* properties of the table with a negative name (that of name j at
        \* index -j)>>
        Step(i, st) ==
            LET s == NextRandomState(st[1])
                j == RandomIndex(s, i + 1)
                temp == st[2][i + 1]
            IN  IF j >= 0
                THEN <<s, [st[2] EXCEPT ![i + 1] = st[2][j + 1],
                                        ![j + 1] = temp], st[3]>>
                ELSE <<s, [st[2] EXCEPT ![i + 1] = Get(st, j)],
                       [st[3] EXCEPT ![-j] = temp]>>
        \* the iterations i = hi, hi - 1, ..., lo in that order (the range is
        \* halved, and st examined on entry, only to keep the evaluation
        \* shallow and in loop order)
        RECURSIVE Loop(_, _, _)
        Loop(lo, hi, st) ==
            IF Len(st[2]) = 0 THEN st
            ELSE IF lo = hi THEN Step(hi, st)
            ELSE LET mid == (lo + hi) \div 2
                 IN  Loop(lo, mid, Loop(mid + 1, hi, st))
        \* Array.from({ length: 256 }, (_, i) => i)
        identity == [k \in 1..256 |-> k - 1] \o <<>>
        \* table.concat(table) copies the 256 elements only
        unset == [k \in 1..256 |-> Undefined] \o <<>>
        t == Loop(1, 255, <<SeedState(seed), identity, unset>>)[2]
    IN  t \o t

\* _fade: t * t * t * (t * (t * 6 - 15) + 10)
Fade(t) ==
    RMul(RMul(RMul(t, t), t),
         RAdd(RMul(t, RSub(RMul(t, RInt(6)), RInt(15))), RInt(10)))

\* _lerp: a + t * (b - a)
Lerp(a, b, t) == RAdd(a, RMul(t, RSub(b, a)))

\* _gradient3D
Gradient3D(hash, x, y, z) ==
    LET \* undefined & 15 is 0
        h == IF hash = Undefined THEN 0 ELSE hash % 16
        u == IF h < 8 THEN x ELSE y
        v == IF h < 4 THEN y ELSE IF h = 12 \/ h = 14 THEN x ELSE z
    IN  RAdd(IF h % 2 = 0 THEN u ELSE RNeg(u),
             IF (h \div 2) % 2 = 0 THEN v ELSE RNeg(v))

\* _noise3D over the permutation table perm.
Noise3D(perm, x0, y0, z0) ==
    LET P(i) == perm[i + 1]
        \* (entry + n) & 255: undefined + n is NaN, and NaN & 255 is 0
        Plus(entry, n) == IF entry = Undefined THEN 0 ELSE And255(entry + n)
        X == And255(RFloor(x0))
        Y == And255(RFloor(y0))
        Z == And255(RFloor(z0))
        x == RFrac(x0)
        y == RFrac(y0)
        z == RFrac(z0)
        x1 == RSub(x, RInt(1))
        y1 == RSub(y, RInt(1))
        z1 == RSub(z, RInt(1))
        u == Fade(x)
        v == Fade(y)
        w == Fade(z)
        a  == Plus(P(X), Y)
        aa == Plus(P(a), Z)
        ab == Plus(P(And255(a + 1)), Z)
        b  == Plus(P(And255(X + 1)), Y)
        ba == Plus(P(b), Z)
        bb == Plus(P(And255(b + 1)), Z)
    IN  Lerp(
            Lerp(
                Lerp(Gradient3D(P(aa), x, y, z), Gradient3D(P(ba), x1, y, z), u),
                Lerp(Gradient3D(P(ab), x, y1, z), Gradient3D(P(bb), x1, y1, z), u),
                v),
            Lerp(
                Lerp(Gradient3D(P(And255(aa + 1)), x, y, z1),
                     Gradient3D(P(And255(ba + 1)), x1, y, z1), u),
                Lerp(Gradient3D(P(And255(ab + 1)), x, y1, z1),
                     Gradient3D(P(And255(bb + 1)), x1, y1, z1), u),
                v),
            w)

\* _fractalNoise: octaves of _noise3D, value / maxValue.
FractalNoise(p, x, y, time) ==
    LET RECURSIVE Octave(_, _, _, _, _)
        Octave(i, value, maxValue, amplitude, frequency) ==
            IF i >= p.options.octaves THEN RDiv(value, maxValue)
            ELSE Octave(i + 1,
                        RAdd(value,
                             RMul(Noise3D(p.permutations,
                                          RMul(x, frequency),
                                          RMul(y, frequency),
                                          RMul(time, frequency)),
                                  amplitude)),
                        RAdd(maxValue, amplitude),
                        RMul(amplitude, p.options.persistence),
                        RMul(frequency, p.options.lacunarity))
    IN  Octave(0, RInt(0), RInt(0), RInt(1), RInt(1))

\* The per-cell mapping of PerlinNoisePattern.generate.
NormalizedValue(noise) == RMax(RInt(0), RMin(RInt(1), RDiv(RAdd(noise, RInt(1)), RInt(2))))

\* Math.floor, Math.min and Math.max of NaN are NaN.
ClampedIndex(normalizedValue, length) ==
    IF RIsNaN(normalizedValue) THEN NaN
    ELSE Max(0, Min(RFloor(RMul(normalizedValue, RInt(length))), length - 1))

\* PerlinNoisePattern.generate; animationTime * 0.001 with animationTime in
\* seconds is animationTime[ms] / 1000000.
PerlinGenerate(p, ctx) ==
    LET region == ctx.region
        chars  == p.options.characters
        width  == Max(0, region.endColumn - region.startColumn + 1)
        height == Max(0, region.endRow - region.startRow + 1)
        Cell(k) ==
            LET row == region.startRow + (k \div width)
                col == region.startColumn + (k % width)
                noise == FractalNoise(p,
                                      RMul(RInt(col), p.options.frequency),
                                      RMul(RInt(row), p.options.frequency),
                                      Rat(ctx.animationTime, 1000000))
                normalizedValue == NormalizedValue(noise)
                clampedIndex == ClampedIndex(normalizedValue, Len(chars))
            IN  CharacterData(col * region.charSpacingX,
                              row * region.charSpacingY,
                              \* characters[NaN] is undefined
                              IF clampedIndex = NaN THEN Undefined
                              ELSE chars[clampedIndex + 1],
                              "", normalizedValue)
    IN  IF Len(chars) = 0 THEN <<>>
        ELSE [k \in 1..(width * height) |-> Cell(k - 1)]

\* ------------------------------------------------------------- RainPattern
\* null (an unbound region, an absent object).
Null == [null |-> TRUE]

\* animationId: null (the host's ids start at 1).
NullId == 0

\* An absent characters key of an options object.
NoCharacters == <<Undefined>>

\* The values Math.random() is sampled at are the members of the sets below,
\* chosen so that every branch of the code that depends on a draw is taken.
\* One row is 2000 units of a drop's y.
Row == 2 * 1000

\* Math.random() * 10 in _createRainDrop: 0 or half a row.
StartOffsets == {0, Row \div 2}

\* Math.floor(Math.random() * 8) in _resetRainDrop.
ResetOffsets == {0, 7}

\* All sequences whose i-th element is drawn from sets[i].
RECURSIVE SeqProduct(_)
SeqProduct(sets) ==
    IF Len(sets) = 0 THEN {<<>>}
    ELSE {Append(front, last) :
            front \in SeqProduct(SubSeq(sets, 1, Len(sets) - 1)),
            last \in sets[Len(sets)]}

\* Math.floor(Math.random() * (maxDropLength - minDropLength)) + minDropLength
DropLengths(options) ==
    IF options.maxDropLength > options.minDropLength
    THEN options.minDropLength .. (options.maxDropLength - 1)
    ELSE {options.minDropLength}

\* Math.random() * (maxSpeed - minSpeed) + minSpeed, in half rows per second.
DropSpeeds(options) ==
    IF options.maxSpeed > options.minSpeed
    THEN options.minSpeed .. (options.maxSpeed - 1)
    ELSE {options.minSpeed}

\* characters[Math.floor(Math.random() * characters.length)]: with an empty
\* glyph set the index is 0 and the element undefined.
RandomGlyphs(options) ==
    IF Len(options.characters) = 0 THEN {Undefined}
    ELSE {options.characters[i] : i \in 1..Len(options.characters)}

\* Array.from({ length }, () => random glyph)
RandomGlyphLists(options, length) ==
    SeqProduct([i \in 1..Max(0, length) |-> RandomGlyphs(options)])

\* Math.floor(Math.random() * columns) + startColumn
RandomColumns(region) ==
    {region.startColumn + c : c \in 0..Max(0, region.columns - 1)}

\* Math.random() * rows, at whole rows.
RandomRows(region) == {r * Row : r \in 0..Max(0, region.rows - 1)}

\* RainPattern._createRainDrop(column, currentTime): the possible drops.
CreateRainDrop(options, column, currentTime) ==
    UNION {{[y |-> -(k * Row) - f,
             column |-> column,
             length |-> length,
             characters |-> characters,
             lastMutationTime |-> currentTime,
             speed |-> speed] :
                k \in 0..Max(0, length - 1),
                f \in StartOffsets,
                characters \in RandomGlyphLists(options, length),
                speed \in DropSpeeds(options)} :
           length \in DropLengths(options)}

\* Math.floor(columns * rainDensity)
TargetDropCount(p, region) == RFloor(RMul(RInt(region.columns), p.options.rainDensity))

\* RainPattern._initializeRainDrops: the possible drop lists after the loop
\* has pushed actualTargetCount drops onto p.rainDrops.
InitializeRainDrops(p) ==
    IF p.region = Null THEN {p.rainDrops}
    ELSE LET region == p.region
             actualTargetCount == Max(1, TargetDropCount(p, region))
             placed == Max(1, (actualTargetCount * 3) \div 10)
             DropsAt(i) ==
                 UNION {IF i < placed
                        THEN {[d EXCEPT !.y = y] :
                                d \in CreateRainDrop(p.options, column, 0),
                                y \in RandomRows(region)}
                        ELSE CreateRainDrop(p.options, column, 0) :
                        column \in RandomColumns(region)}
         IN  {p.rainDrops \o added :
                added \in SeqProduct([i \in 1..actualTargetCount |-> DropsAt(i - 1)])}

\* RainPattern._maintainRainDensity: the possible drop lists.
RECURSIVE MaintainRainDensity(_, _)
MaintainRainDensity(p, drops) ==
    IF p.region = Null THEN {drops}
    ELSE LET region == p.region
             targetDropCount == TargetDropCount(p, region)
         IN  IF Len(drops) < targetDropCount
             THEN LET column == IF region.columns = 0 THEN NaN
                                ELSE (Len(drops) % region.columns) + region.startColumn
                      created == CreateRainDrop(p.options, column, 0)
                      \* Math.random() < 0.4 moves the new drop into the grid
                      moved == {[d EXCEPT !.y = y + region.startRow * Row] :
                                  d \in created, y \in RandomRows(region)}
                  IN  UNION {MaintainRainDensity(p, Append(drops, d)) :
                                d \in created \cup moved}
             ELSE IF Len(drops) > targetDropCount
             THEN \* this._rainDrops.length = targetDropCount: a negative
                  \* length raises a RangeError and leaves the list as it is
                  IF targetDropCount < 0 THEN {drops}
                  ELSE {SubSeq(drops, 1, targetDropCount)}
             ELSE {drops}

\* _maintainRainDensity raises a RangeError: the target is negative (the
\* list, never shorter than a negative target, is then always longer).
MaintainRainDensityThrows(p) ==
    p.region # Null /\ TargetDropCount(p, p.region) < 0

\* The outcome of a call that ran _maintainRainDensity last.
Raised(p) == IF MaintainRainDensityThrows(p) THEN "RangeError" ELSE ""

\* _resetRainDrop drawing the column from 0..columns (one too many).
ResetRainDropAnyColumn(p, drop, currentTime) ==
    IF p.region = Null THEN {drop}
    ELSE UNION {{[y |-> -k - drop.length * Row,
                  column |-> p.region.startColumn + c,
                  length |-> length,
                  characters |-> characters,
                  lastMutationTime |-> currentTime,
                  speed |-> speed] :
                     k \in {o * Row : o \in ResetOffsets},
                     c \in 0..p.region.columns,
                     characters \in RandomGlyphLists(p.options, length),
                     speed \in DropSpeeds(p.options)} :
                length \in DropLengths(p.options)}

\* RainPattern._resetRainDrop: the possible drops.
ResetRainDrop(p, drop, currentTime) ==
    IF p.region = Null THEN {drop}
    ELSE UNION {{[y |-> -k - drop.length * Row,
                  column |-> column,
                  length |-> length,
                  characters |-> characters,
                  lastMutationTime |-> currentTime,
                  speed |-> speed] :
                     k \in {o * Row : o \in ResetOffsets},
                     column \in RandomColumns(p.region),
                     characters \in RandomGlyphLists(p.options, length),
                     speed \in DropSpeeds(p.options)} :
                length \in DropLengths(p.options)}

\* The loop body of _updateRainDrops advancing the drop whether the
\* coordinator animates or not.
UpdateRainDropAlways(p, drop, context) ==
    LET advanced ==
            [drop EXCEPT !.y = @ + drop.speed * context.animationSpeed * context.deltaTime]
    IN  IF advanced.y - advanced.length * Row > p.region.endRow * Row
        THEN ResetRainDrop(p, advanced, context.animationTime)
        ELSE {advanced}

\* The body of the loop of RainPattern._updateRainDrops for one drop: the
\* possible drops after advancing, mutating and recycling it.
UpdateRainDrop(p, drop, context) ==
    LET advanced ==
            IF context.isAnimating
            THEN [drop EXCEPT !.y = @ + drop.speed * context.animationSpeed * context.deltaTime]
            ELSE drop
        \* animationTime - lastMutationTime > 1 / mutationRate, in milliseconds
        due == RLess(RDiv(RInt(1000), p.options.mutationRate),
                     RInt(context.animationTime - advanced.lastMutationTime))
        \* Math.random() < mutationRate can succeed / can fail
        canHit  == RLess(RInt(0), p.options.mutationRate)
        canMiss == RLess(p.options.mutationRate, RInt(1))
        hit == {[advanced EXCEPT !.characters = [@ EXCEPT ![i] = g],
                                 !.lastMutationTime = context.animationTime] :
                  i \in 1..advanced.length, g \in RandomGlyphs(p.options)}
        mutated ==
            IF ~due THEN {advanced}
            ELSE (IF canHit THEN hit ELSE {}) \cup (IF canMiss THEN {advanced} ELSE {})
    IN  UNION {IF d.y - d.length * Row > p.region.endRow * Row
               THEN ResetRainDrop(p, d, context.animationTime)
               ELSE {d} : d \in mutated}

\* RainPattern._updateRainDrops: the possible drop lists.
UpdateRainDrops(p, context) ==
    IF p.region = Null THEN {p.rainDrops}
    ELSE SeqProduct([i \in 1..Len(p.rainDrops) |-> UpdateRainDrop(p, p.rainDrops[i], context)])

\* RainPattern.update: the possible generators after the call.
RainUpdate(p, context) ==
    IF p.region = Null THEN {p}
    ELSE UNION {{[p EXCEPT !.rainDrops = maintained, !.raised = Raised(p)] :
                    maintained \in MaintainRainDensity(p, updated)} :
                updated \in UpdateRainDrops(p, context)}

\* RainPattern._renderRainDrop: the entries one drop appends.
RenderRainDrop(p, drop) ==
    LET region == p.region
        Visible(i) ==
            LET charY == (drop.y \div Row) - i
            IN  /\ ~(charY < region.startRow \/ charY > region.endRow)
                /\ \/ drop.column = NaN
                   \/ ~(drop.column < region.startColumn \/ drop.column > region.endColumn)
        Entry(i) ==
            CharacterData(IF drop.column = NaN THEN NaN
                          ELSE drop.column * region.charSpacingX,
                          ((drop.y \div Row) - i) * region.charSpacingY,
                          drop.characters[i + 1],
                          IF i = 0 THEN p.options.headColor ELSE "",
                          IF i >= 3 THEN RSub(RInt(1), Rat(i, drop.length)) ELSE RInt(1))
        RECURSIVE Go(_)
        Go(i) == IF i >= drop.length THEN <<>>
                 ELSE (IF Visible(i) THEN <<Entry(i)>> ELSE <<>>) \o Go(i + 1)
    IN  IF region = Null THEN <<>> ELSE Go(0)

\* RainPattern.generate on a generator that holds drops: <<generator after
\* the call, returned list>>.
RainEmit(p) ==
    LET SetOpacity(list) == [i \in 1..Len(list) |->
                                [list[i] EXCEPT !.opacity = p.options.fadeOpacity]]
        trail == IF RLess(RInt(0), p.options.fadeOpacity)
                 THEN SetOpacity(p.lastFrameCharacters) ELSE <<>>
        RECURSIVE Drops(_)
        Drops(i) == IF i > Len(p.rainDrops) THEN <<>>
                    ELSE RenderRainDrop(p, p.rainDrops[i]) \o Drops(i + 1)
        characters == trail \o Drops(1)
        kept == SelectSeq(characters, LAMBDA c : c.opacity # p.options.fadeOpacity)
    IN  <<[p EXCEPT !.lastFrameCharacters = kept, !.raised = ""], characters>>

\* RainPattern.generate: the possible <<generator, list>> pairs.
RainGenerate(p, context) ==
    IF p.region = Null THEN {<<[p EXCEPT !.raised = ""], <<>>>>}
    ELSE IF Len(p.rainDrops) = 0
    THEN {IF Len(drops) = 0 THEN <<[p EXCEPT !.rainDrops = drops, !.raised = ""], <<>>>>
          ELSE RainEmit([p EXCEPT !.rainDrops = drops]) :
            drops \in InitializeRainDrops(p)}
    ELSE {RainEmit(p)}

\* _adjustDropsToNewRegion leaving every column as it is.
AdjustDropsKeepsColumns(drops, newRegion) == drops

\* RainPattern._adjustDropsToNewRegion
AdjustDropsToNewRegion(drops, newRegion) ==
    [i \in 1..Len(drops) |->
        IF drops[i].column = NaN THEN drops[i]
        ELSE IF drops[i].column >= newRegion.startColumn + newRegion.columns
        THEN [drops[i] EXCEPT !.column = IF newRegion.columns = 0 THEN NaN
                                            ELSE (@ % newRegion.columns) + newRegion.startColumn]
        ELSE IF drops[i].column < newRegion.startColumn
        THEN [drops[i] EXCEPT !.column = newRegion.startColumn]
        ELSE drops[i]]

\* RainPattern.initialize(region): the possible generators after the call.
RainInitialize(p, region) ==
    LET hadDrops  == Len(p.rainDrops) > 0
        oldRegion == p.region
        bound     == [p EXCEPT !.region = region, !.raised = ""]
    IN  IF \/ ~hadDrops
           \/ oldRegion = Null
           \/ Abs(oldRegion.columns - region.columns) > 2
           \/ Abs(oldRegion.rows - region.rows) > 2
        THEN LET cleared == [bound EXCEPT !.rainDrops = <<>>, !.lastFrameCharacters = <<>>]
             IN  {[cleared EXCEPT !.rainDrops = drops] : drops \in InitializeRainDrops(cleared)}
        ELSE {[bound EXCEPT !.rainDrops = drops, !.raised = Raised(bound)] :
                drops \in MaintainRainDensity(bound, AdjustDropsToNewRegion(p.rainDrops, region))}

\* RainPattern.destroy
RainDestroy(p) ==
    [p EXCEPT !.rainDrops = <<>>, !.lastFrameCharacters = <<>>, !.region = Null,
              !.raised = ""]

\* RainPattern.updateOptions(newOptions) for a new rainDensity and/or a new
\* glyph set (UndefinedNum / NoCharacters for an absent key): the possible
\* generators.
RainUpdateOptions(p, rainDensity, characters) ==
    LET merged == [p EXCEPT !.options.rainDensity =
                                IF rainDensity = UndefinedNum THEN @ ELSE rainDensity,
                            !.options.characters =
                                IF characters = NoCharacters THEN @ ELSE characters]
        maintains == rainDensity # UndefinedNum /\ merged.region # Null
        densities == IF maintains
                     THEN MaintainRainDensity(merged, merged.rainDrops)
                     ELSE {merged.rainDrops}
        raised    == IF maintains THEN Raised(merged) ELSE ""
        \* (a RangeError of _maintainRainDensity ends the call before the
        \* glyphs are drawn again)
        Redrawn(drops) ==
            IF characters = NoCharacters \/ raised # "" THEN {drops}
            ELSE {[i \in 1..Len(drops) |-> [drops[i] EXCEPT !.characters = lists[i]]] :
                    lists \in SeqProduct([i \in 1..Len(drops) |->
                                RandomGlyphLists(merged.options, drops[i].length)])}
    IN  UNION {{[merged EXCEPT !.rainDrops = drops, !.raised = raised] :
                    drops \in Redrawn(maintained)} :
                maintained \in densities}

\* ------------------------------------------------------------- generators
\* DEFAULT_PATTERN_OPTIONS.characters: the code points of the five blocks.
DefaultCharacters == <<9608, 9619, 9618, 9617, 32>>

\* new DummyPattern()
NewDummyPattern ==
    [kind |-> "dummy", isDirty |-> FALSE,
     options |-> [characters |-> DefaultCharacters, animationSpeed |-> 1]]

\* new StaticNoisePattern({ characters, seed })
NewStaticNoisePattern(chars, seed) ==
    [kind |-> "static", isDirty |-> FALSE,
     options |-> [characters |-> chars, animationSpeed |-> 1, seed |-> seed]]

\* new PerlinNoisePattern({ characters, seed, frequency, octaves }) with the
\* default persistence 0.5 and lacunarity 2.0; the constructor builds the
\* permutation table of the seed.
NewPerlinNoisePattern(chars, seed, frequency, octaves) ==
    [kind |-> "perlin-noise", isDirty |-> FALSE,
     options |-> [characters |-> chars, animationSpeed |-> 1, seed |-> seed,
                  frequency |-> frequency, octaves |-> octaves,
                  persistence |-> Rat(1, 2), lacunarity |-> RInt(2)],
     permutations |-> GeneratePermutations(seed)]

\* new RainPattern({ characters, rainDensity, minDropLength, maxDropLength,
\* fadeOpacity }) with the default mutationRate 0.04 and headColor, and with
\* minSpeed = maxSpeed = 1 row per second (2 half rows).
NewRainPattern(chars, rainDensity, minDropLength, maxDropLength, fadeOpacity) ==
    [kind |-> "rain", isDirty |-> FALSE,
     options |-> [characters |-> chars, animationSpeed |-> 1,
                  rainDensity |-> rainDensity,
                  minDropLength |-> minDropLength, maxDropLength |-> maxDropLength,
                  minSpeed |-> 2, maxSpeed |-> 2,
                  mutationRate |-> Rat(1, 25), fadeOpacity |-> fadeOpacity,
                  headColor |-> "#FFFFFF"],
     rainDrops |-> <<>>, region |-> Null, lastFrameCharacters |-> <<>>,
     \* the error the last call on the generator raised, if any
     raised |-> ""]

\* pattern.initialize(region): the possible generators after the call (the
\* base class's initialize does nothing).
PatternInitialize(p, r) ==
    IF p.kind = "rain" THEN RainInitialize(p, r) ELSE {p}

\* pattern.update(context): the possible generators after the call.
PatternUpdate(p, context) ==
    IF p.kind = "rain" THEN RainUpdate(p, context) ELSE {p}

\* pattern.generate(context): the possible <<generator, list>> pairs.
PatternGenerate(p, context) ==
    CASE p.kind = "rain"         -> RainGenerate(p, context)
      [] p.kind = "static"       -> {<<p, StaticNoiseGenerate(p, context)>>}
      [] p.kind = "perlin-noise" -> {<<p, PerlinGenerate(p, context)>>}
      [] OTHER                   -> {<<p, DummyGenerate(p, context)>>}

\* pattern.destroy() (the base class's destroy does nothing).
PatternDestroy(p) == IF p.kind = "rain" THEN RainDestroy(p) ELSE p

\* -------------------------------------------------------- renderer back-ends
\* createRenderer(rendererType): 'WebGL' yields a WebGLRenderer when the host
\* defines WebGL2RenderingContext (its constructor does nothing, so the catch
\* clause is never entered), a Canvas2DRenderer otherwise.
CreateRenderer(rendererType, host) ==
    IF rendererType = "WebGL" /\ host.webgl2Defined
    THEN [kind |-> "WebGL", isInitialized |-> FALSE]
    ELSE [kind |-> "2D", isInitialized |-> FALSE]

\* Canvas2DRenderer.initialize / WebGLRenderer.initialize (with _setupWebGL):
\* TRUE when the call throws.
RendererInitializeThrows(renderer, host) ==
    IF renderer.kind = "WebGL"
    THEN ~host.webgl2Context \/ ~host.webglSetupOk
    ELSE ~host.context2d

RendererInitialize(renderer) == [renderer EXCEPT !.isInitialized = TRUE]

\* The back-end as seen from outside: the clear and render calls it
\* received, the size its last resize call was given (none yet: <<>>) and
\* what the surface shows.
NewBackend == [clears |-> 0, renders |-> 0, resizedTo |-> <<>>, surface |-> <<>>]

\* Canvas2DRenderer.resize / WebGLRenderer.resize (which returns at once
\* when the renderer is not initialized).  Assigning canvas.width resets
\* the bitmap, so the surface is blank afterwards.
BackendResize(backend, renderer, width, height) ==
    IF renderer.kind = "WebGL" /\ ~renderer.isInitialized
    THEN backend
    ELSE [backend EXCEPT !.resizedTo = <<width, height>>, !.surface = <<>>]

\* A fully transparent background, written like the default one (#rrggbbaa).
Transparent == "#18181800"

\* The alpha channel of a colour as fillStyle parses it: the last two digits
\* of #rrggbbaa; #rgb and #rrggbb are opaque.
Alpha(color) == IF color = Transparent THEN 0 ELSE 255

\* What the surface shows: the glyphs drawn and not painted over since.
\* Canvas2DRenderer.clear fills the whole canvas with the background colour
\* (source-over: a fill of alpha 0 leaves every pixel as it was);
\* WebGLRenderer.clear clears the colour buffer with alpha 1.
BackendClear(backend, renderer, backgroundColor) ==
    [backend EXCEPT !.clears = @ + 1,
                    !.surface = IF renderer.kind = "2D" /\ Alpha(backgroundColor) = 0
                                THEN @ ELSE <<>>]

\* Canvas2DRenderer.render draws every entry whose position lies on the
\* canvas (fillText ignores a NaN position); WebGLRenderer.render draws
\* nothing.
BackendRender(backend, renderer, characters, region) ==
    LET OnCanvas(c) == /\ c.x # NaN
                       /\ ~(c.x < 0 \/ c.x >= region.canvasWidth
                            \/ c.y < 0 \/ c.y >= region.canvasHeight)
    IN  [backend EXCEPT !.renders = @ + 1,
                        !.surface = IF renderer.kind = "2D"
                                    THEN @ \o SelectSeq(characters, OnCanvas)
                                    ELSE @]

\* ------------------------------------- the 2D context's drawing state
\* The drawing state of a CanvasRenderingContext2D as the back-end uses it:
\* globalAlpha, fillStyle, whether a clipping path is set, the transforms
\* applied to the identity, the stack of saved states, and the fillText
\* calls made so far.
NewContext2D ==
    [globalAlpha |-> RInt(1), fillStyle |-> "#000000", clip |-> FALSE,
     transform |-> <<>>, saved |-> <<>>, texts |-> 0]

\* A string the host does not parse as a CSS colour.
NotAColor == "none-such"

\* context.save(): the current state is pushed on the stack.
Save(context) ==
    [context EXCEPT !.saved = Append(@, [globalAlpha |-> context.globalAlpha,
                                         fillStyle |-> context.fillStyle,
                                         clip |-> context.clip,
                                         transform |-> context.transform])]

\* context.restore(): the state on top of the stack is popped and becomes
\* current; nothing happens on an empty stack.
Restore(context) ==
    IF Len(context.saved) = 0 THEN context
    ELSE LET top == context.saved[Len(context.saved)]
         IN  [context EXCEPT !.globalAlpha = top.globalAlpha,
                             !.fillStyle = top.fillStyle,
                             !.clip = top.clip,
                             !.transform = top.transform,
                             !.saved = SubSeq(@, 1, Len(@) - 1)]

\* context.globalAlpha = value: a value outside [0, 1] or NaN is ignored.
SetGlobalAlpha(context, value) ==
    IF RLeq(RInt(0), value) /\ RLeq(value, RInt(1))
    THEN [context EXCEPT !.globalAlpha = value]
    ELSE context

\* context.fillStyle = value: a string that is not a colour is ignored.
SetFillStyle(context, value) ==
    IF value = NotAColor THEN context ELSE [context EXCEPT !.fillStyle = value]

\* Canvas2DRenderer._setupContext (font and baseline are not modelled).
SetupContext(context, options) == SetFillStyle(context, options.color)

\* Canvas2DRenderer.clear(backgroundColor) on the drawing state.
Canvas2DClear(context, options, backgroundColor) ==
    SetFillStyle(SetFillStyle(context, backgroundColor), options.color)

\* The loop body of Canvas2DRenderer.render without the globalAlpha reset.
DrawCharacterKeepsAlpha(context, options, char, region) ==
    IF char.x # NaN /\ (\/ char.x < 0 \/ char.x >= region.canvasWidth
                        \/ char.y < 0 \/ char.y >= region.canvasHeight)
    THEN context
    ELSE LET alpha == IF char.opacity # UndefinedNum
                      THEN SetGlobalAlpha(context, char.opacity) ELSE context
             filled == IF char.color # ""
                       THEN SetFillStyle(alpha, char.color) ELSE alpha
             text == [filled EXCEPT !.texts = @ + 1]
         IN  IF char.color # "" THEN SetFillStyle(text, options.color) ELSE text

\* The loop body of Canvas2DRenderer.render for one entry: the drawing state
\* after it.
DrawCharacter(context, options, char, region) ==
    IF char.x # NaN /\ (\/ char.x < 0 \/ char.x >= region.canvasWidth
                        \/ char.y < 0 \/ char.y >= region.canvasHeight)
    THEN context
    ELSE LET alpha == IF char.opacity # UndefinedNum
                      THEN SetGlobalAlpha(context, char.opacity) ELSE context
             filled == IF char.color # ""
                       THEN SetFillStyle(alpha, char.color) ELSE alpha
             moved == [Save(filled) EXCEPT !.transform = Append(@, "translate")]
             turned == IF char.rotation # UndefinedNum
                       THEN [moved EXCEPT !.transform = Append(@, "rotate")]
                       ELSE moved
             scaled == IF char.scale # UndefinedNum
                       THEN [turned EXCEPT !.transform = Append(@, "scale")]
                       ELSE turned
             text == IF char.scale # UndefinedNum \/ char.rotation # UndefinedNum
                     THEN Restore([scaled EXCEPT !.texts = @ + 1])
                     ELSE [filled EXCEPT !.texts = @ + 1]
             opaque == IF char.opacity # UndefinedNum
                       THEN SetGlobalAlpha(text, RInt(1)) ELSE text
         IN  IF char.color # "" THEN SetFillStyle(opaque, options.color) ELSE opaque

\* Canvas2DRenderer.render(characters, region) on the drawing state.
Canvas2DRender(context, options, characters, region) ==
    LET needsClipping == \/ region.startColumn # 0
                         \/ region.startRow # 0
                         \/ region.endColumn # region.columns
                         \/ region.endRow # region.rows
        clipped == IF needsClipping
                   THEN [Save(context) EXCEPT !.clip = TRUE]
                   ELSE context
        RECURSIVE Go(_)
        Go(i) == IF i = 0 THEN clipped
                 ELSE DrawCharacter(Go(i - 1), options, characters[i], region)
        drawn == Go(Len(characters))
    IN  IF needsClipping THEN Restore(drawn) ELSE drawn

\* ------------------------------------------------------------ ASCIIRenderer
\* DEFAULT_OPTIONS (resizeTo is the window).
DefaultOptions ==
    [color |-> "#3e3e80ff", fontSize |-> 32, fontFamily |-> "monospace",
     backgroundColor |-> "#181818ff", padding |-> 0, rendererType |-> "2D",
     enableMouseInteraction |-> FALSE, animated |-> FALSE, animationSpeed |-> 1,
     charSpacingX |-> Undefined, charSpacingY |-> Undefined]

\* { ...oldOptions, ...newOptions }
Merge(oldOptions, newOptions) ==
    [k \in DOMAIN oldOptions |->
        IF k \in DOMAIN newOptions THEN newOptions[k] ELSE oldOptions[k]]

\* initState(), with the constructor's canvas, generator and options.
InitState(pattern, options) ==
    [renderer |-> Null, pattern |-> pattern, region |-> Null, options |-> options,
     lastTime |-> 0, animationId |-> NullId, animationTime |-> 0,
     lastHash |-> 0, isDirty |-> TRUE]

\* ASCIIRenderer._calculateRegion on the coordinator's canvas, options and
\* active generator.
StateRegion(st, canvas) ==
    CalculateRegion(canvas.width, canvas.height, st.pattern.options.characters, st.options)

\* _hasOutputChanged comparing with the initial hash instead of the stored one.
HasOutputChangedFromInitial(st, list) == Hash(list) # 0

\* ASCIIRenderer._hasOutputChanged
HasOutputChanged(st, list) == Hash(list) # st.lastHash

\* ASCIIRenderer._hasOptionsChanged(oldOptions), called after the new options
\* were stored: some key of oldOptions differs in the current options.
HasOptionsChanged(st, oldOptions) ==
    \E k \in DOMAIN oldOptions : st.options[k] # oldOptions[k]

\* requestAnimationFrame(animate): the host hands out increasing ids.
RequestAnimationFrame(host) ==
    [host EXCEPT !.pending = @ \cup {host.nextId}, !.nextId = @ + 1]

\* cancelAnimationFrame(id)
CancelAnimationFrame(host, id) == [host EXCEPT !.pending = @ \ {id}]

\* A world w is [s, canvas, host, backend, frame, retired]: the coordinator's
\* _state, its canvas, the host, what the back-end and the last frame did,
\* and the generator instance the last pattern swap replaced.

\* The tail of ASCIIRenderer.render with the generator's dirty flag left set
\* after a drawn frame.
RenderTailKeepsPatternDirty(w, st, p, list) ==
    LET seen == [characters |-> list, lastHash |-> st.lastHash,
                 isDirty |-> st.isDirty, patternIsDirty |-> p.isDirty,
                 region |-> st.region]
    IN  IF ~HasOutputChanged(st, list) /\ ~st.isDirty /\ ~p.isDirty
        THEN [w EXCEPT !.s = [st EXCEPT !.pattern = p], !.frame = seen]
        ELSE [w EXCEPT
                !.s = [st EXCEPT !.isDirty = FALSE,
                                 !.pattern = p,
                                 !.lastHash = Hash(list)],
                !.backend = BackendRender(BackendClear(w.backend, st.renderer,
                                                       st.options.backgroundColor),
                                          st.renderer, list, st.region),
                !.frame = seen]

\* The tail of ASCIIRenderer.render, after update and generate returned;
\* frame records what the frame saw: the list, and the stored hash and the
\* two dirty flags as they were before the decision.
RenderTail(w, st, p, list) ==
    LET seen == [characters |-> list, lastHash |-> st.lastHash,
                 isDirty |-> st.isDirty, patternIsDirty |-> p.isDirty,
                 region |-> st.region]
    IN  IF ~HasOutputChanged(st, list) /\ ~st.isDirty /\ ~p.isDirty
        THEN [w EXCEPT !.s = [st EXCEPT !.pattern = p], !.frame = seen]
        ELSE [w EXCEPT
                !.s = [st EXCEPT !.isDirty = FALSE,
                                 !.pattern = [p EXCEPT !.isDirty = FALSE],
                                 !.lastHash = Hash(list)],
                !.backend = BackendRender(BackendClear(w.backend, st.renderer,
                                                       st.options.backgroundColor),
                                          st.renderer, list, st.region),
                !.frame = seen]

\* ASCIIRenderer.render(time): the possible worlds after the call.
Render(w, time) ==
    LET deltaTime == time - w.s.lastTime
        st == [w.s EXCEPT
                 !.lastTime = time,
                 !.animationTime = IF w.s.options.animated
                                   THEN @ + deltaTime * w.s.options.animationSpeed
                                   ELSE @]
        context == PatternContext(st.animationTime, deltaTime, st.region,
                                  st.options.animated, st.options.animationSpeed)
    IN  UNION {{RenderTail(w, st, pair[1], pair[2]) :
                    pair \in PatternGenerate(updated, context)} :
               updated \in PatternUpdate(st.pattern, context)}

\* get ASCIIRenderer.isAnimating
IsAnimating(st) == st.options.animated

\* ASCIIRenderer.startAnimation(), the host clock reading now.
StartAnimation(w, now) ==
    [w EXCEPT !.s.options.animated = TRUE,
              !.s.lastTime = now,
              !.s.animationId = w.host.nextId,
              !.host = RequestAnimationFrame(w.host)]

\* The animate callback of startAnimation without its isAnimating check.
AnimateCallbackUnchecked(w, id, time) ==
    LET taken == [w EXCEPT !.host.pending = @ \ {id}]
    IN  {[r EXCEPT !.s.animationId = r.host.nextId,
                   !.host = RequestAnimationFrame(r.host)] :
            r \in Render(taken, time)}

\* The animate callback of startAnimation, run by the host for request id
\* at time stamp time: the possible worlds after it returned.
AnimateCallback(w, id, time) ==
    LET taken == [w EXCEPT !.host.pending = @ \ {id}]
    IN  IF ~taken.s.options.animated
        THEN {taken}
        ELSE {[r EXCEPT !.s.animationId = r.host.nextId,
                        !.host = RequestAnimationFrame(r.host)] :
                r \in Render(taken, time)}

\* stopAnimation leaving the stored request with the host.
StopAnimationKeepsRequest(w) ==
    [w EXCEPT !.s.options.animated = FALSE, !.s.animationId = NullId]

\* ASCIIRenderer.stopAnimation()
StopAnimation(w) ==
    IF w.s.animationId # NullId
    THEN [w EXCEPT !.s.options.animated = FALSE,
                   !.s.animationId = NullId,
                   !.host = CancelAnimationFrame(w.host, w.s.animationId)]
    ELSE [w EXCEPT !.s.options.animated = FALSE]

\* ASCIIRenderer._syncAnimationState()
SyncAnimationState(w, now) ==
    IF w.s.options.animated /\ w.s.animationId = NullId THEN StartAnimation(w, now)
    ELSE IF ~w.s.options.animated /\ w.s.animationId # NullId THEN StopAnimation(w)
    ELSE w

\* ASCIIRenderer.setOptions(newOptions): the possible worlds after the call.
\* On a destroyed coordinator _calculateRegion throws ('Pattern not
\* initialized') after the options were merged and the dirty flag assigned.
SetOptions(w, newOptions, now) ==
    LET oldOptions == w.s.options
        merged == [w.s EXCEPT !.options = Merge(oldOptions, newOptions)]
        dirty  == [merged EXCEPT !.isDirty = HasOptionsChanged(merged, oldOptions)]
        st     == [dirty EXCEPT !.region = StateRegion(dirty, w.canvas)]
    IN  IF w.s.pattern = Null THEN {[w EXCEPT !.s = dirty]}
        ELSE {SyncAnimationState([w EXCEPT !.s = [st EXCEPT !.pattern = p]], now) :
                p \in PatternInitialize(st.pattern, st.region)}

\* resize rendering without marking the coordinator dirty first.
ResizeWithoutDirty(w, now) ==
    LET canvas == [width |-> w.host.innerWidth, height |-> w.host.innerHeight]
        st == [w.s EXCEPT !.region = StateRegion(w.s, canvas)]
        resized == BackendResize(w.backend, st.renderer, canvas.width, canvas.height)
        initialized == {[w EXCEPT !.canvas = canvas, !.backend = resized,
                                  !.s = [st EXCEPT !.pattern = p]] :
                            p \in PatternInitialize(st.pattern, st.region)}
    IN  UNION {IF ~IsAnimating(v.s) THEN Render(v, now) ELSE {v} :
                v \in initialized}

\* ASCIIRenderer.resize(): the size is read from the resize target (the
\* window); the possible worlds after the call.
Resize(w, now) ==
    LET canvas == [width |-> w.host.innerWidth, height |-> w.host.innerHeight]
        st == [w.s EXCEPT !.region = StateRegion(w.s, canvas)]
        resized == BackendResize(w.backend, st.renderer, canvas.width, canvas.height)
        initialized == {[w EXCEPT !.canvas = canvas, !.backend = resized,
                                  !.s = [st EXCEPT !.pattern = p]] :
                            p \in PatternInitialize(st.pattern, st.region)}
    IN  UNION {IF ~IsAnimating(v.s)
               THEN Render([v EXCEPT !.s.isDirty = TRUE], now)
               ELSE {v} : v \in initialized}

\* The pattern setter without the destroy call on the outgoing generator.
SetPatternKeepsOutgoing(w, pattern) ==
    LET outgoing == [pattern |-> w.s.pattern, destroys |-> 0]
        bound == IF w.s.region # Null
                 THEN PatternInitialize(pattern, w.s.region)
                 ELSE {pattern}
    IN  {[w EXCEPT !.s.pattern = p, !.s.animationTime = 0, !.retired = outgoing] :
            p \in bound}

\* The setter of ASCIIRenderer.pattern: the possible worlds after the call.
SetPattern(w, pattern) ==
    LET outgoing == [pattern |-> PatternDestroy(w.s.pattern), destroys |-> 1]
        bound == IF w.s.region # Null
                 THEN PatternInitialize(pattern, w.s.region)
                 ELSE {pattern}
    IN  {[w EXCEPT !.s.pattern = p, !.s.animationTime = 0, !.retired = outgoing] :
            p \in bound}

\* ASCIIRenderer._setupMouseEvents: a mousemove and a click listener on the
\* canvas.
SetupMouseEvents(host) == [host EXCEPT !.mouseListeners = @ + 2]

\* The constructor with the generator initialized and the listeners
\* registered before the back-end is.
ConstructGeneratorFirst(w, pattern, newOptions) ==
    LET s0 == InitState(IF pattern = Null THEN NewDummyPattern ELSE pattern,
                        Merge(DefaultOptions, newOptions))
        s1 == [s0 EXCEPT !.renderer = CreateRenderer(s0.options.rendererType, w.host)]
        s2 == [s1 EXCEPT !.region = StateRegion(s1, w.canvas)]
        listening == [w.host EXCEPT !.resizeListeners = @ + 1]
    IN  {<<IF RendererInitializeThrows(s2.renderer, w.host) THEN "threw" ELSE "ok",
           [w EXCEPT !.s = [s2 EXCEPT !.pattern = p], !.host = listening]>> :
            p \in PatternInitialize(s2.pattern, s2.region)}

\* The constructor of ASCIIRenderer: <<"ok", world>> or <<"threw", world>>
\* when _setupRenderer throws (the world as the throw leaves it).
\* _setupRenderer initializes the back-end, then the generator, then
\* registers the resize listener; the mouse listeners come after it.
Construct(w, pattern, newOptions) ==
    LET s0 == InitState(IF pattern = Null THEN NewDummyPattern ELSE pattern,
                        Merge(DefaultOptions, newOptions))
        s1 == [s0 EXCEPT !.renderer = CreateRenderer(s0.options.rendererType, w.host)]
        s2 == [s1 EXCEPT !.region = StateRegion(s1, w.canvas)]
        listening == [w.host EXCEPT !.resizeListeners = @ + 1]
    IN  IF RendererInitializeThrows(s2.renderer, w.host)
        THEN {<<"threw", [w EXCEPT !.s = s2]>>}
        ELSE {<<"ok", [w EXCEPT !.s = [s2 EXCEPT !.renderer = RendererInitialize(@),
                                                  !.pattern = p],
                                !.host = IF s2.options.enableMouseInteraction
                                         THEN SetupMouseEvents(listening)
                                         ELSE listening]>> :
                p \in PatternInitialize(s2.pattern, s2.region)}

\* Canvas2DRenderer.destroy does nothing; WebGLRenderer.destroy deletes the
\* program of an initialized back-end and marks it uninitialized.
RendererDestroy(renderer) ==
    IF renderer.kind = "WebGL" THEN [renderer EXCEPT !.isInitialized = FALSE]
    ELSE renderer

\* ASCIIRenderer.destroy(): the loop is stopped, the generator and the
\* back-end are destroyed, the listeners are removed (the mouse listeners
\* were added by the constructor when enableMouseInteraction was set, and
\* removing a listener never added does nothing) and the state is replaced
\* by initState().
Destroy(w) ==
    LET stopped == StopAnimation(w)
        s == stopped.s
    IN  [stopped EXCEPT
            !.retired = IF s.pattern = Null THEN @
                        ELSE [pattern |-> PatternDestroy(s.pattern), destroys |-> 1],
            !.host.mouseListeners = IF s.options.enableMouseInteraction
                                    THEN Max(0, @ - 2) ELSE @,
            !.host.resizeListeners = Max(0, @ - 1),
            !.s = InitState(Null, DefaultOptions)]

\* new ASCIIRenderer(canvas, pattern, options) while the module's
\* DEFAULT_OPTIONS object holds the values defaults: the constructor spreads
\* that object, then the caller's options.
ConstructOn(defaults, w, pattern, newOptions) ==
    Construct(w, pattern, Merge(defaults, newOptions))

\* The message of the error the facade's renderer getter throws.
NotInitialized == "Renderer is not initialized - call init() first."

\* ASCIIGround's renderer getter: TRUE when it throws (no coordinator).
RendererGetterThrows(w) == w.s = Null

\* ASCIIGround.destroy() that keeps its coordinator.
FacadeDestroyKeepsRenderer(w) == Destroy(w)

\* ASCIIGround.destroy() on a facade holding a coordinator:
\* this.renderer.destroy(); this.renderer = null.
FacadeDestroy(w) == [Destroy(w) EXCEPT !.s = Null]

\* Pattern.updateOptions(newOptions) for a new glyph set and (rain) a new
\* density, NoCharacters / UndefinedNum for an absent key: the possible
\* generators.  The base class merges the options; RainPattern overrides it.
PatternUpdateOptions(p, characters, rainDensity) ==
    IF p.kind = "rain" THEN RainUpdateOptions(p, rainDensity, characters)
    ELSE {[p EXCEPT !.options.characters =
                        IF characters = NoCharacters THEN @ ELSE characters]}

\* Pattern.setOptions on the active generator: the options are updated and
\* the generator marks itself dirty.
PatternSetOptions(p, characters, rainDensity) ==
    {[q EXCEPT !.isDirty = TRUE] :
        q \in PatternUpdateOptions(p, characters, rainDensity)}

\* Pattern.setOptions of the base class, for any keys: the options are
\* merged and the generator marks itself dirty.
PatternBaseSetOptions(p, newOptions) ==
    [p EXCEPT !.options = Merge(@, newOptions), !.isDirty = TRUE]

\* PerlinNoisePattern.setOptions never rebuilding the permutation table.
PerlinSetOptionsKeepsTable(p, newOptions) == PatternBaseSetOptions(p, newOptions)

\* PerlinNoisePattern.setOptions(newOptions): the permutation table is
\* rebuilt only when a seed is given that differs from the old one.
PerlinSetOptions(p, newOptions) ==
    LET oldSeed == p.options.seed
        merged == PatternBaseSetOptions(p, newOptions)
    IN  IF "seed" \in DOMAIN newOptions /\ newOptions.seed # oldSeed
        THEN [merged EXCEPT !.permutations = GeneratePermutations(merged.options.seed)]
        ELSE merged

\* ------------------------------------------- the legacy ASCIIGround class
\* The canvas-owning class of index.ts.  A legacy world v is [l, canvas,
\* host]: the instance's fields, its canvas and the host.  Only the noise
\* patterns are modelled (no 'japan-rain'); a render is counted, its glyphs
\* are not computed.

\* The options the constructor is given complete to (fontSize || 12).
LegacyOptions == [pattern |-> "perlin", fontSize |-> 12, speed |-> 1]

\* ASCIIGround.configureCanvas: the cell is as wide as the full-width 'M'
\* (U+FF2D, a full-width glyph) and as high as the font size.
LegacyConfigureCanvas(v) ==
    LET charWidth == v.l.options.fontSize
        charHeight == v.l.options.fontSize
    IN  [v EXCEPT !.l.cols = v.canvas.width \div charWidth,
                  !.l.rows = v.canvas.height \div charHeight]

\* ASCIIGround.render(time): fills the canvas and draws rows x cols glyphs.
LegacyRender(v, time) ==
    [v EXCEPT !.l.renders = @ + 1, !.l.renderedAt = time]

\* The constructor of ASCIIGround, the host clock reading now:
\* <<"ok", world>>, or <<"threw", world>> when getContext('2d') is null.
LegacyConstruct(v, now) ==
    IF ~v.host.context2d
    THEN <<"threw", v>>
    ELSE <<"ok", LegacyConfigureCanvas(
                    [v EXCEPT !.l = [options |-> LegacyOptions,
                                     animationId |-> NullId, startTime |-> 0,
                                     currentTime |-> now, cols |-> 0, rows |-> 0,
                                     renders |-> 0, renderedAt |-> 0]])>>

\* get isAnimating
LegacyIsAnimating(l) == l.animationId # NullId

\* ASCIIGround.init()
LegacyInit(v) == LegacyRender(LegacyConfigureCanvas(v), v.l.currentTime)

\* ASCIIGround.startAnimation() without the check of a running animation.
LegacyStartAnimationUnchecked(v, now) ==
    <<"ok", [v EXCEPT !.l.startTime = now,
                      !.l.animationId = v.host.nextId,
                      !.host = RequestAnimationFrame(v.host)]>>

\* ASCIIGround.startAnimation(): <<"threw", world>> with
\* 'Animation is already running!' when a request is stored.
LegacyStartAnimation(v, now) ==
    IF v.l.animationId # NullId
    THEN <<"threw", v>>
    ELSE <<"ok", [v EXCEPT !.l.startTime = now,
                           !.l.animationId = v.host.nextId,
                           !.host = RequestAnimationFrame(v.host)]>>

\* The animate callback of ASCIIGround.startAnimation, run by the host for
\* request id at time stamp time.
LegacyAnimateCallback(v, id, time) ==
    LET taken == [v EXCEPT !.host.pending = @ \ {id}, !.l.currentTime = time]
        drawn == LegacyRender(taken, time)
    IN  [drawn EXCEPT !.l.animationId = drawn.host.nextId,
                      !.host = RequestAnimationFrame(drawn.host)]

\* ASCIIGround.stopAnimation()
LegacyStopAnimation(v) ==
    IF v.l.animationId # NullId
    THEN [v EXCEPT !.host = CancelAnimationFrame(v.host, v.l.animationId),
                   !.l.animationId = NullId]
    ELSE v

\* ASCIIGround.resize(width, height)
LegacyResize(v, width, height) ==
    LET sized == LegacyConfigureCanvas(
                    [v EXCEPT !.canvas = [width |-> width, height |-> height]])
        shown == IF ~LegacyIsAnimating(sized.l)
                 THEN LegacyRender(sized, sized.l.currentTime)
                 ELSE sized
    IN  LegacyInit(shown)

\* ------------------------------------------------------------------ state
VARIABLES
    phase,      \* "new" before the constructor ran, then "ready" or "threw";
                \* "bench" when a generator is driven without a coordinator
    state,      \* ASCIIRenderer._state
    canvas,     \* the canvas element: [width, height]
    host,       \* the host: capabilities, window size, pending frame requests
    backend,    \* calls received by the back-end and what the surface shows
    frame,      \* what the last frame saw and did (Null before the first)
    lastOp,     \* the last operation called on the coordinator
    quiet,      \* only render calls were made since construction
    steps,      \* operations performed so far
    gen,        \* a generator driven directly: [pattern, region]
    genOp,      \* the last operation called on it
    genOut,     \* the list its last generate returned
    legacy,     \* the fields of a legacy ASCIIGround instance (Null if none)
    retired     \* the generator the last pattern swap replaced, as it is now,
                \* and the destroy calls it received (Null before a swap)

vars == <<phase, state, canvas, host, backend, frame, lastOp, quiet, steps,
          gen, genOp, genOut, legacy, retired>>

coordVars == <<phase, state, canvas, host, backend, frame, lastOp, quiet, retired>>

genVars == <<gen, genOp, genOut>>

coordWorld == <<state, canvas, host, backend, frame, retired>>

\* --------------------------------------------------------- input domains
\* Time stamps handed to render and to the animate callback, in
\* milliseconds: animationTime * 0.001 is then a multiple of 1/2, which keeps
\* the noise arithmetic within 31 bits.
Times == {0, 500 * 1000}

\* Time stamps of frames a few hundredths of a second apart: the second
\* falls in the same tenth of a second as the first, the third in the next.
FrameTimes == {0, 50, 150}

\* Readings of performance.now().
Clock == {500 * 1000}

\* Canvas and window sizes in pixels: at fontSize 10 a half-width glyph set
\* gives 2 columns and 1 or 2 rows, at fontSize 20 or with a full-width glyph
\* 1 column and 0 or 1 rows.
CanvasSizes == {<<10, 12>>, <<10, 24>>}

\* Glyph sets given to Pattern.setOptions.
GlyphSets == {<<12450>>}

\* Hosts: WebGL2RenderingContext undefined; defined but getContext('webgl2')
\* returns null; a context whose shaders fail to build; a working context;
\* and a host whose canvas gives no context at all (getContext('2d') is null).
Hosts ==
    {[webgl2Defined |-> h[1], webgl2Context |-> h[2], webglSetupOk |-> h[3],
      context2d |-> h[4], innerWidth |-> 0, innerHeight |-> 0,
      pending |-> {}, nextId |-> 1, resizeListeners |-> 0,
      mouseListeners |-> 0] :
        h \in {<<FALSE, FALSE, FALSE, TRUE>>, <<TRUE, FALSE, FALSE, TRUE>>,
               <<TRUE, TRUE, FALSE, TRUE>>, <<TRUE, TRUE, TRUE, TRUE>>,
               <<FALSE, FALSE, FALSE, FALSE>>}}

\* The rain generator handed to the coordinator: one drop on two columns, a
\* fade trail, no glyph mutation within the times above.
CoordinatorRain == NewRainPattern(<<49>>, Rat(1, 2), 1, 1, Rat(1, 5))

\* The generators handed to the constructor (Null: none, the DummyPattern).
CoordinatorPatterns ==
    {Null,
     NewStaticNoisePattern(<<46, 35>>, 0),
     NewPerlinNoisePattern(<<46, 35>>, 0, Rat(1, 2), 1),
     CoordinatorRain}

\* The generators assigned to renderer.pattern later on.
SwapPatterns == {NewStaticNoisePattern(<<87>>, 0), CoordinatorRain}

\* The constructor's arguments: <<pattern, options>>.
Constructions ==
    {<<p, [fontSize |-> 10, rendererType |-> "2D", animated |-> a]>> :
        p \in CoordinatorPatterns, a \in BOOLEAN}
    \cup {<<Null, [fontSize |-> 10, rendererType |-> "WebGL", animated |-> FALSE]>>,
          <<Null, [fontSize |-> 10, rendererType |-> "2D", animated |-> FALSE,
                   enableMouseInteraction |-> TRUE]>>}

NewOptions ==
    {[backgroundColor |-> "#000"], [padding |-> 1], [fontSize |-> 20],
     [animated |-> TRUE], [animated |-> FALSE]}

World == [s |-> state, canvas |-> canvas, host |-> host, backend |-> backend,
          frame |-> frame, retired |-> retired]

\* The coordinator's variables take the values of world w.
Becomes(w) ==
    /\ state' = w.s
    /\ canvas' = w.canvas
    /\ host' = w.host
    /\ backend' = w.backend
    /\ frame' = w.frame
    /\ retired' = w.retired

\* The time stamps the host hands to a frame.
Stamps == IF phase = "frame" THEN FrameTimes ELSE Times

Op(name, time, w) ==
    [op |-> name, time |-> time,
     renders |-> w.backend.renders - backend.renders,
     clears |-> w.backend.clears - backend.clears]

\* The operations a behaviour of the animation loop may perform: one more,
\* so that a frame request outlived by a stop can still be run.
MaxLoopOps == MaxOps + 1

Ready ==
    \/ phase = "ready" /\ steps < MaxOps
    \/ phase = "loop" /\ steps < MaxLoopOps
    \/ phase = "frame" /\ steps < MaxOps

\* -------------------------------------------------------------- actions
Init ==
    /\ phase = "new"
    /\ state = Null
    /\ \E size \in CanvasSizes, h \in Hosts :
          /\ canvas = [width |-> size[1], height |-> size[2]]
          /\ host = [h EXCEPT !.innerWidth = size[1], !.innerHeight = size[2]]
    /\ backend = NewBackend
    /\ frame = Null
    /\ lastOp = [op |-> "none"]
    /\ quiet = TRUE
    /\ steps = 0
    /\ gen = Null
    /\ genOp = [op |-> "none"]
    /\ genOut = <<>>
    /\ legacy = Null
    /\ retired = Null

\* new ASCIIRenderer(canvas, pattern, options)
New ==
    /\ phase = "new"
    /\ \E args \in Constructions :
         /\ args[2].rendererType = "2D" =>
                \/ host.webgl2Defined /\ host.webglSetupOk
                \/ ~host.context2d
         /\ \E result \in Construct(World, args[1], args[2]) :
               /\ phase' = IF result[1] = "ok" THEN "ready" ELSE "threw"
               /\ Becomes(result[2])
               /\ lastOp' = Op("new", 0, result[2])
                               @@ [rendererType |-> args[2].rendererType]
    /\ UNCHANGED <<quiet, steps, genVars, legacy>>

\* renderer.render(time)
DoRender ==
    /\ Ready
    /\ \E time \in Stamps : \E w \in Render(World, time) :
            /\ Becomes(w)
            /\ lastOp' = Op("render", time, w) @@ [deltaTime |-> time - state.lastTime]
    /\ steps' = steps + 1
    /\ UNCHANGED <<phase, quiet, genVars, legacy>>

\* renderer.startAnimation()
DoStartAnimation ==
    /\ Ready
    /\ \E now \in Clock :
         LET w == StartAnimation(World, now)
         IN  Becomes(w) /\ lastOp' = Op("startAnimation", now, w)
    /\ quiet' = FALSE
    /\ steps' = steps + 1
    /\ UNCHANGED <<phase, genVars, legacy>>

\* renderer.stopAnimation()
DoStopAnimation ==
    /\ Ready
    /\ LET w == StopAnimation(World)
       IN  Becomes(w) /\ lastOp' = Op("stopAnimation", 0, w)
    /\ quiet' = FALSE
    /\ steps' = steps + 1
    /\ UNCHANGED <<phase, genVars, legacy>>

\* renderer.setOptions(newOptions)
DoSetOptions ==
    /\ Ready
    /\ \E newOptions \in NewOptions, now \in Clock :
         \E w \in SetOptions(World, newOptions, now) :
            /\ Becomes(w)
            /\ lastOp' = Op("setOptions", now, w)
                            @@ [changed |-> Merge(state.options, newOptions) # state.options,
                                wasAnimating |-> state.options.animated]
    /\ quiet' = FALSE
    /\ steps' = steps + 1
    /\ UNCHANGED <<phase, genVars, legacy>>

\* The window takes a new size and the registered resize handler runs.
DoResize ==
    /\ Ready
    /\ \E size \in CanvasSizes, now \in Clock :
         \E w \in Resize([World EXCEPT !.host.innerWidth = size[1],
                                       !.host.innerHeight = size[2]], now) :
            /\ Becomes(w)
            /\ lastOp' = Op("resize", now, w)
                            @@ [width |-> size[1], height |-> size[2],
                                wasAnimating |-> IsAnimating(state)]
    /\ quiet' = FALSE
    /\ steps' = steps + 1
    /\ UNCHANGED <<phase, genVars, legacy>>

\* renderer.pattern = pattern (ASCIIGround.setPattern)
DoSetPattern ==
    /\ Ready
    /\ \E pattern \in SwapPatterns :
         \E w \in SetPattern(World, pattern) :
            /\ Becomes(w)
            /\ lastOp' = Op("setPattern", 0, w)
                            @@ [wasAnimating |-> state.options.animated,
                                wasDirty |-> state.isDirty,
                                given |-> pattern]
    /\ quiet' = FALSE
    /\ steps' = steps + 1
    /\ UNCHANGED <<phase, genVars, legacy>>

\* renderer.pattern.setOptions({ characters }) by the caller
DoPatternSetOptions ==
    /\ Ready
    /\ \E characters \in GlyphSets :
         \E p \in PatternSetOptions(state.pattern, characters, UndefinedNum) :
            LET w == [World EXCEPT !.s.pattern = p]
            IN  Becomes(w) /\ lastOp' = Op("patternSetOptions", 0, w)
    /\ quiet' = FALSE
    /\ steps' = steps + 1
    /\ UNCHANGED <<phase, genVars, legacy>>

\* The host runs a pending frame request: the animate callback of
\* startAnimation.
Animate ==
    /\ Ready
    /\ \E id \in host.pending, time \in Stamps :
         \E w \in AnimateCallback(World, id, time) :
            Becomes(w) /\ lastOp' = Op("animate", time, w)
    /\ quiet' = FALSE
    /\ steps' = steps + 1
    /\ UNCHANGED <<phase, genVars, legacy>>

\* The legacy instance's world.
LegacyWorld == [l |-> legacy, canvas |-> canvas, host |-> host]

LegacyBecomes(v) ==
    /\ legacy' = v.l
    /\ canvas' = v.canvas
    /\ host' = v.host

LegacyReady == phase = "legacy" /\ steps < MaxOps

\* new ASCIIGround(canvas, options)
LegacyNew ==
    /\ phase = "new"
    /\ ~host.webgl2Defined      \* the legacy class never asks for WebGL
    /\ \E now \in Clock :
         LET result == LegacyConstruct(LegacyWorld, now)
         IN  /\ phase' = IF result[1] = "ok" THEN "legacy" ELSE "threw"
             /\ LegacyBecomes(result[2])
             /\ lastOp' = [op |-> "legacy.new", threw |-> result[1] = "threw"]
    /\ UNCHANGED <<state, backend, frame, quiet, steps, retired, genVars>>

\* ground.init()
DoLegacyInit ==
    /\ LegacyReady
    /\ LegacyBecomes(LegacyInit(LegacyWorld))
    /\ lastOp' = [op |-> "legacy.init", threw |-> FALSE]
    /\ steps' = steps + 1
    /\ UNCHANGED <<phase, state, backend, frame, quiet, retired, genVars>>

\* ground.startAnimation()
DoLegacyStartAnimation ==
    /\ LegacyReady
    /\ \E now \in Clock :
         LET result == LegacyStartAnimation(LegacyWorld, now)
         IN  /\ LegacyBecomes(result[2])
             /\ lastOp' = [op |-> "legacy.startAnimation",
                           threw |-> result[1] = "threw"]
    /\ steps' = steps + 1
    /\ UNCHANGED <<phase, state, backend, frame, quiet, retired, genVars>>

\* ground.stopAnimation()
DoLegacyStopAnimation ==
    /\ LegacyReady
    /\ LegacyBecomes(LegacyStopAnimation(LegacyWorld))
    /\ lastOp' = [op |-> "legacy.stopAnimation", threw |-> FALSE]
    /\ steps' = steps + 1
    /\ UNCHANGED <<phase, state, backend, frame, quiet, retired, genVars>>

\* ground.resize(width, height)
DoLegacyResize ==
    /\ LegacyReady
    /\ \E size \in CanvasSizes :
         LegacyBecomes(LegacyResize(LegacyWorld, size[1], size[2]))
    /\ lastOp' = [op |-> "legacy.resize", threw |-> FALSE]
    /\ steps' = steps + 1
    /\ UNCHANGED <<phase, state, backend, frame, quiet, retired, genVars>>

\* The host runs a pending frame request of the legacy instance.
LegacyAnimate ==
    /\ LegacyReady
    /\ \E id \in host.pending, time \in Times :
         LegacyBecomes(LegacyAnimateCallback(LegacyWorld, id, time))
    /\ lastOp' = [op |-> "legacy.animate", threw |-> FALSE]
    /\ steps' = steps + 1
    /\ UNCHANGED <<phase, state, backend, frame, quiet, retired, genVars>>

Next ==
    \/ New
    \/ DoRender
    \/ DoStartAnimation
    \/ DoStopAnimation
    \/ DoSetOptions
    \/ DoResize
    \/ DoSetPattern
    \/ DoPatternSetOptions
    \/ Animate
    \/ LegacyNew
    \/ DoLegacyInit
    \/ DoLegacyStartAnimation
    \/ DoLegacyStopAnimation
    \/ DoLegacyResize
    \/ LegacyAnimate

Spec == Init /\ [][Next]_vars

\* ------------------------------------------------- the animation loop
\* The coordinator after construction on a fully capable host, with a
\* generator whose output does not depend on time, driven through its
\* animation operations for MaxLoopOps operations.
LoopConstructions ==
    {<<p, [fontSize |-> 10, rendererType |-> "2D", animated |-> a]>> :
        p \in {Null, NewStaticNoisePattern(<<46, 35>>, 0)}, a \in BOOLEAN}

InitLoop ==
    /\ phase = "loop"
    /\ \E size \in CanvasSizes, args \in LoopConstructions :
         LET h == CHOOSE x \in Hosts : x.webglSetupOk
             w == [s |-> Null,
                   canvas |-> [width |-> size[1], height |-> size[2]],
                   host |-> [h EXCEPT !.innerWidth = size[1], !.innerHeight = size[2]],
                   backend |-> NewBackend,
                   frame |-> Null, retired |-> Null]
         IN  \E result \in Construct(w, args[1], args[2]) :
                /\ result[1] = "ok"
                /\ state = result[2].s
                /\ canvas = result[2].canvas
                /\ host = result[2].host
                /\ backend = result[2].backend
                /\ frame = result[2].frame
    /\ lastOp = [op |-> "new", time |-> 0, renders |-> 0, clears |-> 0,
                 rendererType |-> "2D"]
    /\ quiet = TRUE
    /\ steps = 0
    /\ gen = Null
    /\ genOp = [op |-> "none"]
    /\ genOut = <<>>
    /\ legacy = Null
    /\ retired = Null

NextLoop ==
    \/ DoRender
    \/ DoStartAnimation
    \/ DoStopAnimation
    \/ DoSetOptions
    \/ DoResize
    \/ Animate

SpecLoop == InitLoop /\ [][NextLoop]_vars

\* ------------------------------------------------- frames on the surface
\* The coordinator after construction on a fully capable host with the
\* cell-noise or the rain generator, an opaque or a transparent background,
\* animating or not, then rendered, swapped, started and stopped.
FrameConstructions ==
    {<<p, [fontSize |-> 10, rendererType |-> "2D", animated |-> a,
           backgroundColor |-> b]>> :
        p \in {NewStaticNoisePattern(<<46, 35>>, 0), CoordinatorRain},
        a \in BOOLEAN,
        b \in {DefaultOptions.backgroundColor, Transparent}}

InitFrame ==
    /\ phase = "frame"
    /\ \E size \in CanvasSizes, args \in FrameConstructions :
         LET h == CHOOSE x \in Hosts : x.webglSetupOk
             w == [s |-> Null,
                   canvas |-> [width |-> size[1], height |-> size[2]],
                   host |-> [h EXCEPT !.innerWidth = size[1], !.innerHeight = size[2]],
                   backend |-> NewBackend,
                   frame |-> Null, retired |-> Null]
         IN  \E result \in Construct(w, args[1], args[2]) :
                /\ result[1] = "ok"
                /\ state = result[2].s
                /\ canvas = result[2].canvas
                /\ host = result[2].host
                /\ backend = result[2].backend
                /\ frame = result[2].frame
    /\ lastOp = [op |-> "new", time |-> 0, renders |-> 0, clears |-> 0,
                 rendererType |-> "2D"]
    /\ quiet = TRUE
    /\ steps = 0
    /\ gen = Null
    /\ genOp = [op |-> "none"]
    /\ genOut = <<>>
    /\ legacy = Null
    /\ retired = Null

NextFrame ==
    \/ DoRender
    \/ DoStartAnimation
    \/ DoStopAnimation
    \/ DoSetPattern
    \/ Animate

SpecFrame == InitFrame /\ [][NextFrame]_vars

\* ------------------------------------------- the content hash on its own
\* ASCIIRenderer._hash applied to lists a generator may return: a list of
\* one or two entries is hashed, then altered (two entries exchanged, or
\* one field of one entry given another value) and hashed again.  genOut
\* holds the list, genOp the alteration and the hash of the list before it.
HashEntries ==
    {CharacterData(x, 0, char, "#fff", UndefinedNum) : x \in {0, 5}, char \in {46, 35}}

HashLists == {<<a>> : a \in HashEntries} \cup (HashEntries \X HashEntries)

\* The values a field of an entry may be given (UndefinedNum: left out).
FieldValues ==
    [x |-> {0, 5}, y |-> {0, 12}, char |-> {46, 35}, color |-> {"#fff", "#000"},
     opacity |-> {UndefinedNum, Rat(1, 2)}, scale |-> {UndefinedNum, RInt(2)},
     rotation |-> {UndefinedNum, Rat(1, 2)}]

Hashing == phase = "hash" /\ steps < MaxOps

InitHash ==
    /\ phase = "hash"
    /\ state = Null
    /\ canvas = Null
    /\ host = Null
    /\ backend = NewBackend
    /\ frame = Null
    /\ lastOp = [op |-> "none"]
    /\ quiet = TRUE
    /\ steps = 0
    /\ gen = Null
    /\ genOp = [op |-> "none", hashBefore |-> 0]
    /\ genOut \in HashLists
    /\ legacy = Null
    /\ retired = Null

\* Two different entries of the list change places.
HashSwap ==
    /\ Hashing
    /\ Len(genOut) = 2
    /\ genOut[1] # genOut[2]
    /\ genOut' = <<genOut[2], genOut[1]>>
    /\ genOp' = [op |-> "swap", hashBefore |-> Hash(genOut)]
    /\ steps' = steps + 1
    /\ UNCHANGED <<coordVars, gen, legacy>>

\* One field of one entry takes another value.
HashChange ==
    /\ Hashing
    /\ \E i \in 1..Len(genOut), f \in DOMAIN FieldValues :
         \E v \in FieldValues[f] \ {genOut[i][f]} :
            genOut' = [genOut EXCEPT ![i][f] = v]
    /\ genOp' = [op |-> "change", hashBefore |-> Hash(genOut)]
    /\ steps' = steps + 1
    /\ UNCHANGED <<coordVars, gen, legacy>>

NextHash == HashSwap \/ HashChange

SpecHash == InitHash /\ [][NextHash]_vars

\* ----------------------------------------- a generator driven directly
\* The region of a surface that holds c columns and r rows of half-width
\* glyphs at fontSize 10 (spacing 5 x 12) and one spare pixel each way: the
\* 1 x 1 surface for c = r = 0.
BenchRegion(c, r, padding) ==
    CalculateRegion(c * 5 + 1, r * 12 + 1, <<46, 35>>,
                    [DefaultOptions EXCEPT !.fontSize = 10, !.padding = padding])

BenchRegions ==
    {BenchRegion(c, r, padding) :
        c \in 0..MaxCols, r \in 0..MaxRows, padding \in 0..MaxPadding}

\* The regions the rain generator is driven on: <<columns, rows, padding>>.
RainRegions ==
    {BenchRegion(g[1], g[2], g[3]) :
        g \in {<<0, 0, 0>>, <<1, 1, 0>>, <<2, 1, 0>>, <<2, 2, 0>>, <<2, 2, 1>>,
               <<1, MaxRows + 1, 0>>}}

RainDensities == {RInt(0), Rat(1, 2), Rat(9, 10), Rat(-1, 2)}

\* The generators driven directly: every kind with a glyph set and with the
\* empty glyph set.
BenchPatterns ==
    {NewDummyPattern,
     [NewDummyPattern EXCEPT !.options.characters = <<>>],
     NewStaticNoisePattern(<<46, 35>>, 0),
     NewStaticNoisePattern(<<>>, 0),
     NewPerlinNoisePattern(<<46, 35>>, 0, RInt(1), 1),
     NewPerlinNoisePattern(<<46, 35>>, 0, Rat(1, 2), 2),
     NewPerlinNoisePattern(<<>>, 0, RInt(1), 1),
     NewRainPattern(<<49>>, Rat(9, 10), 1, 2, Rat(1, 5)),
     NewRainPattern(<<49>>, Rat(1, 2), 1, 2, RInt(1)),
     NewRainPattern(<<>>, Rat(9, 10), 1, 2, RInt(0))}
    \cup {NewRainPattern(<<49>>, d, 1, 2, RInt(0)) : d \in RainDensities}

\* The contexts a caller hands to update and generate for region r: a
\* still frame at time 0 and an animated frame half a second later.
BenchContexts(r) ==
    {PatternContext(0, 0, r, FALSE, 1),
     PatternContext(500 * 1000, 500 * 1000, r, TRUE, 1)}

Driven == phase = "bench" /\ steps < MaxOps

InitPattern ==
    /\ phase = "bench"
    /\ state = Null
    /\ canvas = Null
    /\ host = Null
    /\ backend = NewBackend
    /\ frame = Null
    /\ lastOp = [op |-> "none"]
    /\ quiet = TRUE
    /\ steps = 0
    /\ \E p \in BenchPatterns : gen = [pattern |-> p, region |-> Null]
    /\ genOp = [op |-> "new"]
    /\ genOut = <<>>
    /\ legacy = Null
    /\ retired = Null

\* pattern.initialize(region)
GenInitialize ==
    /\ Driven
    /\ \E r \in IF gen.pattern.kind = "rain" THEN RainRegions ELSE BenchRegions :
         \E p \in PatternInitialize(gen.pattern, r) :
            gen' = [pattern |-> p, region |-> r]
    /\ genOp' = [op |-> "initialize"]
    /\ steps' = steps + 1
    /\ UNCHANGED <<coordVars, genOut, legacy>>

\* pattern.update(context)
GenUpdate ==
    /\ Driven
    /\ gen.region # Null
    /\ \E context \in BenchContexts(gen.region) :
         /\ \E p \in PatternUpdate(gen.pattern, context) :
               gen' = [gen EXCEPT !.pattern = p]
         /\ genOp' = [op |-> "update", context |-> context]
    /\ steps' = steps + 1
    /\ UNCHANGED <<coordVars, genOut, legacy>>

\* pattern.generate(context)
GenGenerate ==
    /\ Driven
    /\ gen.region # Null
    /\ \E context \in BenchContexts(gen.region) :
         /\ \E pair \in PatternGenerate(gen.pattern, context) :
               /\ gen' = [gen EXCEPT !.pattern = pair[1]]
               /\ genOut' = pair[2]
         /\ genOp' = [op |-> "generate", context |-> context]
    /\ steps' = steps + 1
    /\ UNCHANGED <<coordVars, legacy>>

\* pattern.updateOptions({ rainDensity }) on the rain generator
GenUpdateOptions ==
    /\ Driven
    /\ gen.pattern.kind = "rain"
    /\ \E d \in RainDensities :
         \E p \in PatternUpdateOptions(gen.pattern, NoCharacters, d) :
            gen' = [gen EXCEPT !.pattern = p]
    /\ genOp' = [op |-> "updateOptions"]
    /\ steps' = steps + 1
    /\ UNCHANGED <<coordVars, genOut, legacy>>

\* pattern.destroy()
GenDestroy ==
    /\ Driven
    /\ gen' = [pattern |-> PatternDestroy(gen.pattern), region |-> Null]
    /\ genOp' = [op |-> "destroy"]
    /\ steps' = steps + 1
    /\ UNCHANGED <<coordVars, genOut, legacy>>

NextPattern ==
    \/ GenInitialize
    \/ GenUpdate
    \/ GenGenerate
    \/ GenUpdateOptions
    \/ GenDestroy

SpecPattern == InitPattern /\ [][NextPattern]_vars

\* The rain generator with a fade trail, driven from its first
\* initialize(region) on, so that a frame, a re-initialization and another
\* frame fit into a behaviour.
InitRain ==
    /\ phase = "bench"
    /\ state = Null
    /\ canvas = Null
    /\ host = Null
    /\ backend = NewBackend
    /\ frame = Null
    /\ lastOp = [op |-> "none"]
    /\ quiet = TRUE
    /\ steps = 0
    /\ \E r \in RainRegions :
         \E p \in RainInitialize(NewRainPattern(<<49>>, Rat(9, 10), 1, 2, Rat(1, 5)), r) :
            gen = [pattern |-> p, region |-> r]
    /\ genOp = [op |-> "initialize"]
    /\ genOut = <<>>
    /\ legacy = Null
    /\ retired = Null

SpecRain == InitRain /\ [][NextPattern]_vars

\* ------------------------------------------- two noise generators
\* Two PerlinNoisePattern instances, each constructed with a seed of its
\* own and then given new options one at a time; generate is called on
\* both with the same context.  gen holds the two instances, the seeds they
\* were constructed with and whether a setOptions call changed the seed of
\* either; genOut holds the two lists of the last generate.
TwinSeeds == {0, 7}

TwinOptions ==
    {[seed |-> s] : s \in TwinSeeds}
    \cup {[frequency |-> f] : f \in {RInt(1), Rat(1, 2)}}
    \cup {[characters |-> <<35, 46>>]}

TwinRegions == {BenchRegion(2, 1, 0), BenchRegion(2, 2, 1)}

Twinned == phase = "twin" /\ steps < MaxOps

InitTwin ==
    /\ phase = "twin"
    /\ state = Null
    /\ canvas = Null
    /\ host = Null
    /\ backend = NewBackend
    /\ frame = Null
    /\ lastOp = [op |-> "none"]
    /\ quiet = TRUE
    /\ steps = 0
    /\ \E s1 \in TwinSeeds, s2 \in TwinSeeds :
         gen = [instances |-> <<NewPerlinNoisePattern(<<46, 35>>, s1, RInt(1), 1),
                                NewPerlinNoisePattern(<<46, 35>>, s2, RInt(1), 1)>>,
                constructedSeeds |-> <<s1, s2>>,
                seedChanged |-> <<FALSE, FALSE>>]
    /\ genOp = [op |-> "new"]
    /\ genOut = <<<<>>, <<>>>>
    /\ legacy = Null
    /\ retired = Null

\* pattern.setOptions(newOptions) on one of the two instances
TwinSetOptions ==
    /\ Twinned
    /\ \E i \in 1..2, newOptions \in TwinOptions :
         LET p == gen.instances[i]
             changesSeed == "seed" \in DOMAIN newOptions
                            /\ newOptions.seed # p.options.seed
         IN  gen' = [gen EXCEPT
                        !.instances[i] = PerlinSetOptions(p, newOptions),
                        !.seedChanged[i] = @ \/ changesSeed]
    /\ genOp' = [op |-> "setOptions"]
    /\ steps' = steps + 1
    /\ UNCHANGED <<coordVars, genOut, legacy>>

\* pattern.update(context).generate(context) on both instances with the
\* same context (update returns the generator unchanged)
TwinGenerate ==
    /\ Twinned
    /\ \E r \in TwinRegions, time \in Times :
         LET context == PatternContext(time, 0, r, FALSE, 1)
         IN  /\ genOut' = <<PerlinGenerate(gen.instances[1], context),
                            PerlinGenerate(gen.instances[2], context)>>
             /\ genOp' = [op |-> "generate", context |-> context]
    /\ steps' = steps + 1
    /\ UNCHANGED <<coordVars, gen, legacy>>

NextTwin == TwinSetOptions \/ TwinGenerate

SpecTwin == InitTwin /\ [][NextTwin]_vars

\* ----------------------------------------- one PerlinNoisePattern, driven
\* One noise generator given options by both of its option methods and
\* asked for frames.
NoiseSeeds == {0, 7, -7}

NoiseOctaves == {0, 1, 2}

NoiseOptions ==
    {[seed |-> s] : s \in NoiseSeeds}
    \cup {[octaves |-> o] : o \in NoiseOctaves}
    \cup {[persistence |-> RInt(0)], [frequency |-> Rat(1, 2)]}

Noisy == phase = "noise" /\ steps < MaxOps

\* Pattern.updateOptions(newOptions) of the base class, which
\* PerlinNoisePattern inherits unchanged: the options are merged.
PatternBaseUpdateOptions(p, newOptions) ==
    [p EXCEPT !.options = Merge(@, newOptions)]

\* The fractal noise value of every cell of the region, in the order of
\* generate.
NoiseSamples(p, ctx) ==
    LET region == ctx.region
        width  == Max(0, region.endColumn - region.startColumn + 1)
        height == Max(0, region.endRow - region.startRow + 1)
    IN  [k \in 1..(width * height) |->
            FractalNoise(p,
                         RMul(RInt(region.startColumn + ((k - 1) % width)),
                              p.options.frequency),
                         RMul(RInt(region.startRow + ((k - 1) \div width)),
                              p.options.frequency),
                         Rat(ctx.animationTime, 1000000))]

InitNoise ==
    /\ phase = "noise"
    /\ state = Null
    /\ canvas = Null
    /\ host = Null
    /\ backend = NewBackend
    /\ frame = Null
    /\ lastOp = [op |-> "none"]
    /\ quiet = TRUE
    /\ steps = 0
    /\ \E seed \in NoiseSeeds, octaves \in NoiseOctaves :
         gen = NewPerlinNoisePattern(<<46, 35>>, seed, RInt(1), octaves)
    /\ genOp = [op |-> "new"]
    /\ genOut = <<>>
    /\ legacy = Null
    /\ retired = Null

\* pattern.setOptions(newOptions)
NoiseSetOptions ==
    /\ Noisy
    /\ \E newOptions \in NoiseOptions :
         /\ gen' = PerlinSetOptions(gen, newOptions)
         /\ genOp' = [op |-> "setOptions", newOptions |-> newOptions]
    /\ steps' = steps + 1
    /\ UNCHANGED <<coordVars, genOut, legacy>>

\* pattern.updateOptions(newOptions)
NoiseUpdateOptions ==
    /\ Noisy
    /\ \E newOptions \in NoiseOptions :
         /\ gen' = PatternBaseUpdateOptions(gen, newOptions)
         /\ genOp' = [op |-> "updateOptions", newOptions |-> newOptions]
    /\ steps' = steps + 1
    /\ UNCHANGED <<coordVars, genOut, legacy>>

\* pattern.update(context).generate(context)
NoiseGenerate ==
    /\ Noisy
    /\ \E r \in TwinRegions, time \in Times :
         LET context == PatternContext(time, 0, r, FALSE, 1)
         IN  /\ genOut' = PerlinGenerate(gen, context)
             /\ genOp' = [op |-> "generate", context |-> context,
                          samples |-> NoiseSamples(gen, context)]
    /\ steps' = steps + 1
    /\ UNCHANGED <<coordVars, gen, legacy>>

NextNoise == NoiseSetOptions \/ NoiseUpdateOptions \/ NoiseGenerate

SpecNoise == InitNoise /\ [][NextNoise]_vars

\* ------------------------------------------ one StaticNoisePattern, driven
\* One cell-noise generator asked for frames at nearby times.
CellSeeds == {0, 1, -1}

CellGlyphSets == {<<46, 35>>, <<46, 35, 64>>}

\* animationTime 0, 0.05, 0.1 and 0.15: floor(animationTime * 10) is 0, 0,
\* 1 and 1.
CellTimes == {0, 50, 100, 150}

CellOptions ==
    {[seed |-> s] : s \in CellSeeds} \cup {[characters |-> c] : c \in CellGlyphSets}

Celled == phase = "cell" /\ steps < MaxOps

InitCell ==
    /\ phase = "cell"
    /\ state = Null
    /\ canvas = Null
    /\ host = Null
    /\ backend = NewBackend
    /\ frame = Null
    /\ lastOp = [op |-> "none"]
    /\ quiet = TRUE
    /\ steps = 0
    /\ \E seed \in CellSeeds :
         gen = [pattern |-> NewStaticNoisePattern(<<46, 35>>, seed), last |-> Null]
    /\ genOp = [op |-> "new"]
    /\ genOut = <<>>
    /\ legacy = Null
    /\ retired = Null

\* pattern.updateOptions(newOptions)
CellUpdateOptions ==
    /\ Celled
    /\ \E newOptions \in CellOptions :
         /\ gen' = [gen EXCEPT !.pattern = PatternBaseUpdateOptions(@, newOptions)]
         /\ genOp' = [op |-> "updateOptions", newOptions |-> newOptions]
    /\ steps' = steps + 1
    /\ UNCHANGED <<coordVars, genOut, legacy>>

\* pattern.update(context).generate(context); the call before it is kept
\* for comparison.
CellGenerate ==
    /\ Celled
    /\ \E r \in TwinRegions, time \in CellTimes :
         LET context == PatternContext(time, 0, r, FALSE, 1)
             out == StaticNoiseGenerate(gen.pattern, context)
         IN  /\ genOut' = out
             /\ gen' = [gen EXCEPT !.last = [context |-> context,
                                             options |-> gen.pattern.options,
                                             out |-> out]]
             /\ genOp' = [op |-> "generate", context |-> context,
                          previous |-> gen.last]
    /\ steps' = steps + 1
    /\ UNCHANGED <<coordVars, legacy>>

NextCell == CellUpdateOptions \/ CellGenerate

SpecCell == InitCell /\ [][NextCell]_vars

\* -------------------------------------------- the region calculator, driven
\* The inputs of _calculateRegion are changed one at a time and the region
\* is computed on a temp context that keeps its font between the calls (a
\* new context has the font '10px sans-serif').
RegionInputs ==
    [fontSize : {10, 20}, padding : 0..MaxPadding, charSpacingX : {Undefined, 4},
     characters : {<<46, 35>>, <<87>>, <<>>, <<8203>>}, size : CanvasSizes]

Gridded == phase = "region" /\ steps < MaxOps

InitRegion ==
    /\ phase = "region"
    /\ state = Null
    /\ canvas = Null
    /\ host = Null
    /\ backend = NewBackend
    /\ frame = Null
    /\ lastOp = [op |-> "none"]
    /\ quiet = TRUE
    /\ steps = 0
    /\ \E inputs \in RegionInputs : gen = [font |-> 10, inputs |-> inputs]
    /\ genOp = [op |-> "new"]
    /\ genOut = Null
    /\ legacy = Null
    /\ retired = Null

\* The canvas, an option or the glyph set takes another value.
RegionChange ==
    /\ Gridded
    /\ \E inputs \in RegionInputs :
         /\ Cardinality({k \in DOMAIN inputs : inputs[k] # gen.inputs[k]}) = 1
         /\ gen' = [gen EXCEPT !.inputs = inputs]
    /\ genOp' = [op |-> "change"]
    /\ steps' = steps + 1
    /\ UNCHANGED <<coordVars, genOut, legacy>>

\* this._calculateRegion(); the call before it and its result are kept for
\* comparison.
RegionCalculate ==
    /\ Gridded
    /\ LET inputs == gen.inputs
           result == CalculateRegionOn(
                         gen.font, inputs.size[1], inputs.size[2], inputs.characters,
                         [DefaultOptions EXCEPT !.fontSize = inputs.fontSize,
                                                !.padding = inputs.padding,
                                                !.charSpacingX = inputs.charSpacingX])
       IN  /\ gen' = [gen EXCEPT !.font = result[1]]
           /\ genOut' = result[2]
           /\ genOp' = [op |-> "calculate", previousOp |-> genOp.op,
                        previous |-> genOut]
    /\ steps' = steps + 1
    /\ UNCHANGED <<coordVars, legacy>>

NextRegion == RegionChange \/ RegionCalculate

SpecRegion == InitRegion /\ [][NextRegion]_vars

\* ------------------------------------------------- the ASCIIGround facade
\* The facade holds a coordinator (state) or none (state = Null). lastOp
\* tells the call, whether it threw, the message and what it returned.
Faced == phase = "facade" /\ steps < MaxOps

Threw(name) == [op |-> name, held |-> state # Null, threw |-> TRUE,
                message |-> NotInitialized, returned |-> "nothing"]

Returned(name, value) == [op |-> name, held |-> state # Null, threw |-> FALSE,
                          message |-> "", returned |-> value]

InitFacade ==
    /\ phase = "facade"
    /\ state = Null
    /\ \E size \in CanvasSizes, h \in {x \in Hosts : x.webglSetupOk \/ ~x.context2d} :
          /\ canvas = [width |-> size[1], height |-> size[2]]
          /\ host = [h EXCEPT !.innerWidth = size[1], !.innerHeight = size[2]]
    /\ backend = NewBackend
    /\ frame = Null
    /\ lastOp = [op |-> "new", held |-> FALSE, threw |-> FALSE, message |-> "",
                 returned |-> "nothing"]
    /\ quiet = TRUE
    /\ steps = 0
    /\ gen = Null
    /\ genOp = [op |-> "none"]
    /\ genOut = <<>>
    /\ legacy = Null
    /\ retired = Null

\* facade.init(canvas, pattern, options): the coordinator is kept when its
\* constructor returns; when it throws the facade holds what it held.
FacadeInit ==
    /\ Faced
    /\ \E args \in LoopConstructions :
         \E result \in Construct(World, args[1], args[2]) :
            IF result[1] = "ok"
            THEN Becomes(result[2]) /\ lastOp' = Returned("init", "facade")
            ELSE /\ Becomes([result[2] EXCEPT !.s = state])
                 /\ lastOp' = [op |-> "init", held |-> state # Null, threw |-> TRUE,
                               message |-> "constructor", returned |-> "nothing"]
    /\ steps' = steps + 1
    /\ UNCHANGED <<phase, quiet, genVars, legacy>>

\* facade.startAnimation()
FacadeStartAnimation ==
    /\ Faced
    /\ IF RendererGetterThrows(World)
       THEN lastOp' = Threw("startAnimation") /\ UNCHANGED coordWorld
       ELSE \E now \in Clock :
               /\ Becomes(StartAnimation(World, now))
               /\ lastOp' = Returned("startAnimation", "facade")
    /\ steps' = steps + 1
    /\ UNCHANGED <<phase, quiet, genVars, legacy>>

\* facade.stopAnimation()
FacadeStopAnimation ==
    /\ Faced
    /\ IF RendererGetterThrows(World)
       THEN lastOp' = Threw("stopAnimation") /\ UNCHANGED coordWorld
       ELSE /\ Becomes(StopAnimation(World))
            /\ lastOp' = Returned("stopAnimation", "facade")
    /\ steps' = steps + 1
    /\ UNCHANGED <<phase, quiet, genVars, legacy>>

\* facade.setPattern(pattern)
FacadeSetPattern ==
    /\ Faced
    /\ IF RendererGetterThrows(World)
       THEN lastOp' = Threw("setPattern") /\ UNCHANGED coordWorld
       ELSE \E w \in SetPattern(World, NewStaticNoisePattern(<<87>>, 0)) :
               /\ Becomes(w)
               /\ lastOp' = Returned("setPattern", "facade")
    /\ steps' = steps + 1
    /\ UNCHANGED <<phase, quiet, genVars, legacy>>

\* facade.setOptions(options)
FacadeSetOptions ==
    /\ Faced
    /\ IF RendererGetterThrows(World)
       THEN lastOp' = Threw("setOptions") /\ UNCHANGED coordWorld
       ELSE \E newOptions \in NewOptions, now \in Clock :
               \E w \in SetOptions(World, newOptions, now) :
                  /\ Becomes(w)
                  /\ lastOp' = Returned("setOptions", "facade")
    /\ steps' = steps + 1
    /\ UNCHANGED <<phase, quiet, genVars, legacy>>

\* facade.destroy(): declared void, it returns nothing.
DoFacadeDestroy ==
    /\ Faced
    /\ IF RendererGetterThrows(World)
       THEN lastOp' = Threw("destroy") /\ UNCHANGED coordWorld
       ELSE /\ Becomes(FacadeDestroy(World))
            /\ lastOp' = Returned("destroy", "nothing")
    /\ steps' = steps + 1
    /\ UNCHANGED <<phase, quiet, genVars, legacy>>

NextFacade ==
    \/ FacadeInit
    \/ FacadeStartAnimation
    \/ FacadeStopAnimation
    \/ FacadeSetPattern
    \/ FacadeSetOptions
    \/ DoFacadeDestroy

SpecFacade == InitFacade /\ [][NextFacade]_vars

\* ------------------------------------------- the baseline back-end alone
\* A Canvas2DRenderer initialized on a canvas, then cleared, given new
\* options and asked to render lists whose entries carry any mix of color,
\* opacity, scale and rotation, on and off the canvas, on a region with and
\* without padding.
BaseColors == {DefaultOptions.color, "#ff0000"}

CanvasEntries ==
    {[CharacterData(x, 0, 35, color, opacity) EXCEPT !.scale = scale,
                                                     !.rotation = rotation] :
        x \in {0, -5},
        color \in {"", "#00ff00"},
        opacity \in {UndefinedNum, Rat(1, 2), RInt(2)},
        scale \in {UndefinedNum, RInt(2)},
        rotation \in {UndefinedNum, RInt(1)}}

CanvasLists ==
    {<<>>} \cup {<<c>> : c \in CanvasEntries}
           \cup {<<c, d>> :
                    c \in {e \in CanvasEntries :
                              /\ e.x = 0 /\ e.color # "" /\ e.opacity = Rat(1, 2)
                              /\ e.rotation # UndefinedNum},
                    d \in {e \in CanvasEntries :
                              e.x = 0 /\ e.rotation = UndefinedNum}}

CanvasRegions == {BenchRegion(2, 2, padding) : padding \in {0, 1}}

Painting == phase = "canvas"

\* renderer.initialize(canvas, options)
InitCanvas ==
    /\ phase = "canvas"
    /\ state = Null
    /\ canvas = Null
    /\ host = Null
    /\ backend = NewBackend
    /\ frame = Null
    /\ lastOp = [op |-> "none"]
    /\ quiet = TRUE
    /\ steps = 0
    /\ \E color \in BaseColors :
         LET options == [DefaultOptions EXCEPT !.color = color]
         IN  gen = [context |-> SetupContext(NewContext2D, options),
                    options |-> options]
    /\ genOp = [op |-> "initialize"]
    /\ genOut = <<>>
    /\ legacy = Null
    /\ retired = Null

\* renderer.clear(backgroundColor)
CanvasClear ==
    /\ Painting
    /\ \E backgroundColor \in {DefaultOptions.backgroundColor, Transparent} :
         /\ gen' = [gen EXCEPT !.context = Canvas2DClear(@, gen.options, backgroundColor)]
         /\ genOp' = [op |-> "clear", backgroundColor |-> backgroundColor]
    /\ UNCHANGED <<coordVars, steps, genOut, legacy>>

\* renderer.options = options
CanvasSetOptions ==
    /\ Painting
    /\ \E color \in BaseColors :
         LET options == [gen.options EXCEPT !.color = color]
         IN  /\ gen' = [context |-> SetupContext(gen.context, options),
                        options |-> options]
             /\ genOp' = [op |-> "options"]
    /\ UNCHANGED <<coordVars, steps, genOut, legacy>>

\* renderer.render(characters, region)
CanvasRender ==
    /\ Painting
    /\ \E characters \in CanvasLists, region \in CanvasRegions :
         /\ gen' = [gen EXCEPT !.context =
                        Canvas2DRender(@, gen.options, characters, region)]
         /\ genOp' = [op |-> "render", region |-> region,
                      texts |-> gen.context.texts]
         /\ genOut' = characters
    /\ gen'.context.texts <= MaxOps
    /\ UNCHANGED <<coordVars, steps, legacy>>

NextCanvas == CanvasClear \/ CanvasSetOptions \/ CanvasRender

SpecCanvas == InitCanvas /\ [][NextCanvas]_vars

\* ----------------------------------------- two coordinators, one module
\* Coordinator A is constructed, then started, stopped, given options and
\* destroyed in any order; then coordinator B is constructed with the
\* arguments A was given.  gen holds the module's DEFAULT_OPTIONS object,
\* whether A's _state.options is that very object (as initState() leaves it),
\* and the arguments; genOut is B's state once B exists.
SharedConstructions ==
    {<<p, o>> : p \in {Null, NewStaticNoisePattern(<<46, 35>>, 0)},
                o \in {[fontSize |-> 10], [fontSize |-> 10, animated |-> TRUE],
                       [fontSize |-> 20, padding |-> 1]}}

SharedOptions == {[backgroundColor |-> "#000"], [animated |-> TRUE]}

Sharing == phase = "shared" /\ genOut = Null /\ steps < MaxOps

\* What a write to A's options object does to the module's object.
Shares(w) ==
    IF gen.aliased THEN [gen EXCEPT !.defaults = w.s.options] ELSE gen

InitShared ==
    /\ phase = "shared"
    /\ \E size \in CanvasSizes, args \in SharedConstructions :
         LET h == CHOOSE x \in Hosts : x.webglSetupOk
             w == [s |-> Null,
                   canvas |-> [width |-> size[1], height |-> size[2]],
                   host |-> [h EXCEPT !.innerWidth = size[1], !.innerHeight = size[2]],
                   backend |-> NewBackend,
                   frame |-> Null, retired |-> Null]
         IN  /\ \E result \in ConstructOn(DefaultOptions, w, args[1], args[2]) :
                  /\ result[1] = "ok"
                  /\ state = result[2].s
                  /\ canvas = result[2].canvas
                  /\ host = result[2].host
                  /\ backend = result[2].backend
                  /\ frame = result[2].frame
             /\ gen = [defaults |-> DefaultOptions, aliased |-> FALSE, args |-> args]
    /\ lastOp = [op |-> "new", time |-> 0, renders |-> 0, clears |-> 0,
                 rendererType |-> "2D"]
    /\ quiet = TRUE
    /\ steps = 0
    /\ genOp = [op |-> "none"]
    /\ genOut = Null
    /\ legacy = Null
    /\ retired = Null

\* a.startAnimation()
SharedStartAnimation ==
    /\ Sharing
    /\ \E now \in Clock :
         LET w == StartAnimation(World, now)
         IN  /\ Becomes(w)
             /\ lastOp' = Op("startAnimation", now, w)
             /\ gen' = Shares(w)
    /\ steps' = steps + 1
    /\ UNCHANGED <<phase, quiet, genOp, genOut, legacy>>

\* a.stopAnimation()
SharedStopAnimation ==
    /\ Sharing
    /\ LET w == StopAnimation(World)
       IN  /\ Becomes(w)
           /\ lastOp' = Op("stopAnimation", 0, w)
           /\ gen' = Shares(w)
    /\ steps' = steps + 1
    /\ UNCHANGED <<phase, quiet, genOp, genOut, legacy>>

\* a.setOptions(newOptions): the merged options are a new object.
SharedSetOptions ==
    /\ Sharing
    /\ \E newOptions \in SharedOptions, now \in Clock :
         \E w \in SetOptions(World, newOptions, now) :
            /\ Becomes(w)
            /\ lastOp' = Op("setOptions", now, w) @@ [threw |-> state.pattern = Null]
    /\ gen' = [gen EXCEPT !.aliased = FALSE]
    /\ steps' = steps + 1
    /\ UNCHANGED <<phase, quiet, genOp, genOut, legacy>>

\* a.destroy(): stopAnimation writes to the options object A holds, and
\* initState() hands A the module's object.
SharedDestroy ==
    /\ Sharing
    /\ LET defaults == Shares(StopAnimation(World)).defaults
           w == [Destroy(World) EXCEPT !.s.options = defaults]
       IN  /\ Becomes(w)
           /\ lastOp' = Op("destroy", 0, w)
           /\ gen' = [gen EXCEPT !.defaults = defaults, !.aliased = TRUE]
    /\ steps' = steps + 1
    /\ UNCHANGED <<phase, quiet, genOp, genOut, legacy>>

\* b = new ASCIIRenderer(canvas, pattern, options), the arguments being
\* those A was constructed with (on a canvas of its own).
SharedConstruct ==
    /\ phase = "shared"
    /\ genOut = Null
    /\ LET w == [World EXCEPT !.s = Null, !.backend = NewBackend,
                              !.frame = Null, !.retired = Null]
       IN  \E result \in ConstructOn(gen.defaults, w, gen.args[1], gen.args[2]) :
              /\ result[1] = "ok"
              /\ genOut' = result[2].s
              /\ host' = result[2].host
    /\ genOp' = [op |-> "new"]
    /\ UNCHANGED <<phase, state, canvas, backend, frame, retired, lastOp, quiet,
                   steps, gen, legacy>>

NextShared ==
    \/ SharedStartAnimation
    \/ SharedStopAnimation
    \/ SharedSetOptions
    \/ SharedDestroy
    \/ SharedConstruct

SpecShared == InitShared /\ [][NextShared]_vars

\* ------------------------------------------------------------------ claims
\* The last call ran a frame (render itself, the forced render of resize
\* when not animating, a tick of the animation loop).
FrameRan ==
    /\ phase = "ready"
    /\ \/ lastOp.op = "render"
       \/ lastOp.op = "resize" /\ ~state.options.animated
       \/ lastOp.op = "animate" /\ state.options.animated

\* Exactly two calls were made since construction, both render with the same
\* time stamp, on a coordinator that is not animating.
TwoEqualFrames ==
    /\ phase = "ready"
    /\ quiet
    /\ steps = 2
    /\ lastOp.op = "render"
    /\ lastOp.deltaTime = 0
    /\ ~state.options.animated

C2_SkipIffUnchangedAndClean ==
    FrameRan =>
        LET skipped   == lastOp.clears = 0 /\ lastOp.renders = 0
            unchanged == /\ Hash(frame.characters) = frame.lastHash
                         /\ ~frame.isDirty
                         /\ ~frame.patternIsDirty
        IN  /\ skipped <=> unchanged
            /\ ~skipped => /\ lastOp.clears = 1
                           /\ lastOp.renders = 1
                           /\ ~state.isDirty
                           /\ ~state.pattern.isDirty
                           /\ state.lastHash = Hash(frame.characters)

\* A frame whose non-empty list hashed to the stored hash, with both dirty
\* flags clear, and which called neither clear nor render.
C2_Witness ==
    /\ FrameRan
    /\ Len(frame.characters) > 0
    /\ Hash(frame.characters) = frame.lastHash
    /\ ~frame.isDirty
    /\ ~frame.patternIsDirty
    /\ lastOp.clears = 0
    /\ lastOp.renders = 0

\* C3: setOptions with a changed option on a coordinator that is not
\* animating (before and after the call) makes exactly one backend render
\* call as part of the call.
C3_SetOptionsRendersOnce ==
    (/\ phase = "ready"
     /\ lastOp.op = "setOptions"
     /\ lastOp.changed
     /\ ~lastOp.wasAnimating
     /\ ~state.options.animated) => lastOp.renders = 1

\* The active generator is bound to the stored region (the rain generator
\* keeps the region it was initialized with).
BoundToStoredRegion ==
    state.pattern.kind = "rain" => state.pattern.region = state.region

\* C4: after the pattern setter the stored region is the recomputed region,
\* the new generator is initialized against it, and the coordinator is
\* dirty or, when it is not animating, has made exactly one backend render
\* call as part of the setter.
C4_SetPatternRefreshes ==
    (phase = "ready" /\ lastOp.op = "setPattern") =>
        /\ state.region = StateRegion(state, canvas)
        /\ BoundToStoredRegion
        /\ IF lastOp.wasAnimating THEN state.isDirty ELSE lastOp.renders = 1

\* The glyph set of the active generator is the one it was constructed
\* with (its own setOptions was not used to change it).
GlyphSetAsConstructed == state.pattern.options.characters \notin GlyphSets

\* C5: whenever a frame can start, after any construction, setOptions,
\* setPattern and resize calls, the stored region is the region the region
\* calculator returns for the canvas size, the options and the glyph set of
\* the active generator.
C5_RegionIsCurrent ==
    (phase = "ready" /\ GlyphSetAsConstructed) =>
        state.region = StateRegion(state, canvas)

\* C10: when the WebGL back-end is requested and its context is missing or
\* its setup throws, construction completes and the coordinator draws
\* through an initialized 2D back-end.
C10_WebGLFallsBack ==
    (/\ phase # "new"
     /\ lastOp.op = "new"
     /\ lastOp.rendererType = "WebGL"
     /\ ~(host.webgl2Context /\ host.webglSetupOk)) =>
        /\ phase = "ready"
        /\ state.renderer.kind = "2D"
        /\ state.renderer.isInitialized

\* The last call on the directly driven generator was op, on a bound region.
Did(op) == phase = "bench" /\ gen.region # Null /\ genOp.op = op

\* C6: after initialize and after every update, generate and option update
\* of a rain generator bound to a region, the number of live drops is
\* floor(columns x density).
C6_DropCountIsTarget ==
    (/\ gen.pattern.kind = "rain"
     /\ Did("initialize") \/ Did("update") \/ Did("generate") \/ Did("updateOptions")) =>
        Len(gen.pattern.rainDrops) = TargetDropCount(gen.pattern, gen.region)

\* C7: generate of the noise generator with a non-empty glyph set on an
\* unpadded region of C columns and R rows returns C x R entries, one per
\* cell (column in 0..C-1, row in 0..R-1) at x = column x spacingX,
\* y = row x spacingY, each glyph taken from the glyph set.
C7_OneEntryPerCell ==
    (/\ gen.pattern.kind = "perlin-noise"
     /\ Did("generate")
     /\ Len(gen.pattern.options.characters) > 0
     /\ gen.region.startColumn = 0) =>
        LET r == gen.region
            chars == gen.pattern.options.characters
        IN  /\ Len(genOut) = r.columns * r.rows
            /\ \A i \in 1..Len(genOut) :
                  /\ \E k \in 1..Len(chars) : genOut[i].char = chars[k]
                  /\ \E column \in 0..(r.columns - 1), row \in 0..(r.rows - 1) :
                        /\ genOut[i].x = column * r.charSpacingX
                        /\ genOut[i].y = row * r.charSpacingY
            /\ \A i, j \in 1..Len(genOut) :
                  (genOut[i].x = genOut[j].x /\ genOut[i].y = genOut[j].y) => i = j

\* C8: with an empty glyph set, generate of every generator returns the
\* empty list.
C8_EmptyGlyphSetEmptyList ==
    (Did("generate") /\ Len(gen.pattern.options.characters) = 0) => genOut = <<>>

\* C9: on a region with zero columns or zero rows, generate of every
\* generator (with a glyph set) returns the empty list.
C9_DegenerateRegionEmptyList ==
    (/\ Did("generate")
     /\ Len(gen.pattern.options.characters) > 0
     /\ gen.region.columns = 0 \/ gen.region.rows = 0) => genOut = <<>>

\* C11: when the canvas gives no 2D context, constructing the coordinator
\* or the legacy ASCIIGround throws, and then no frame request is pending,
\* no resize or mouse listener is registered, the generator is still as it
\* was constructed (never initialized) and no legacy instance exists.
FreshGenerators == (CoordinatorPatterns \ {Null}) \cup {NewDummyPattern}

C11_NoContextThrowsBeforeSetup ==
    (phase # "new" /\ ~host.context2d) =>
        /\ phase = "threw"
        /\ lastOp.op \in {"new", "legacy.new"}
        /\ host.pending = {}
        /\ host.resizeListeners = 0
        /\ host.mouseListeners = 0
        /\ lastOp.op = "new" => state.pattern \in FreshGenerators
        /\ lastOp.op = "legacy.new" => lastOp.threw /\ legacy = Null

\* The constructor threw for a rain generator on a canvas without context.
C11_Witness ==
    /\ phase = "threw"
    /\ ~host.context2d
    /\ lastOp.op = "new"
    /\ state.pattern.kind = "rain"

\* C12: stopAnimation cancels the stored frame request with the host and
\* changes nothing the last frame left (back-end, surface, generator,
\* region, stored hash); and while the coordinator is stopped, a frame
\* callback the host still runs calls neither the generator nor the
\* back-end.
C12_StopEndsTheLoop ==
    [][/\ (steps' # steps /\ lastOp'.op = "stopAnimation") =>
            /\ state.animationId # NullId => state.animationId \notin host'.pending
            /\ ~state'.options.animated
            /\ backend' = backend
            /\ frame' = frame
            /\ canvas' = canvas
            /\ state'.pattern = state.pattern
            /\ state'.region = state.region
            /\ state'.lastHash = state.lastHash
            /\ state'.animationTime = state.animationTime
       /\ (steps' # steps /\ lastOp'.op = "animate" /\ ~state.options.animated) =>
            /\ backend' = backend
            /\ frame' = frame
            /\ state' = state]_vars

\* After two startAnimation calls and a stop, the host ran the request the
\* stop did not cancel.
C12_Witness ==
    /\ phase = "loop"
    /\ lastOp.op = "animate"
    /\ ~state.options.animated
    /\ host.pending = {}
    /\ host.nextId = 3

\* C13: in the legacy ASCIIGround, startAnimation called while an animation
\* is running throws and changes nothing (no frame is requested, the stored
\* request stays), and at every moment at most one frame request of the
\* instance is pending: the stored one.
C13_LegacySecondStartThrows ==
    /\ [](phase = "legacy" =>
            /\ Cardinality(host.pending) <= 1
            /\ host.pending = IF LegacyIsAnimating(legacy)
                              THEN {legacy.animationId} ELSE {})
    /\ [][(/\ steps' # steps
           /\ lastOp'.op = "legacy.startAnimation"
           /\ LegacyIsAnimating(legacy)) =>
                /\ lastOp'.threw
                /\ host' = host
                /\ legacy' = legacy]_vars

\* A second startAnimation threw while the first request was pending.
C13_Witness ==
    /\ phase = "legacy"
    /\ lastOp.op = "legacy.startAnimation"
    /\ lastOp.threw
    /\ host.pending = {legacy.animationId}

\* C14: in every state of a constructed coordinator, isAnimating is true
\* exactly when a frame callback is scheduled with the host.
C14_IsAnimatingIffScheduled ==
    phase \in {"ready", "loop"} => (IsAnimating(state) <=> host.pending # {})

\* C15: after resize the canvas has the new size, the stored region is the
\* one computed from it, the back-end's resize was called with the new
\* size and a rain generator is bound to the new region; a coordinator
\* that was not animating cleared and rendered exactly once inside the
\* call, an animating one not at all.
C15_ResizeRebindsAndForcesOneRender ==
    lastOp.op = "resize" =>
        /\ canvas = [width |-> lastOp.width, height |-> lastOp.height]
        /\ state.region = StateRegion(state, canvas)
        /\ backend.resizedTo = <<lastOp.width, lastOp.height>>
        /\ state.pattern.kind = "rain" => state.pattern.region = state.region
        /\ ~lastOp.wasAnimating => lastOp.clears = 1 /\ lastOp.renders = 1
        /\ lastOp.wasAnimating => lastOp.clears = 0 /\ lastOp.renders = 0

\* A resize of a coordinator that was not animating, whose forced frame
\* produced a non-empty list with the hash already stored.
C15_Witness ==
    /\ lastOp.op = "resize"
    /\ ~lastOp.wasAnimating
    /\ lastOp.renders = 1
    /\ Len(frame.characters) > 0
    /\ Hash(frame.characters) = frame.lastHash
    /\ frame.region = state.region

AdvancedY(d, context) ==
    IF context.isAnimating
    THEN d.y + d.speed * context.animationSpeed * context.deltaTime
    ELSE d.y

\* Drop d has left the region of rain generator p: y - length > endRow.
LeftRegion(p, d, context) ==
    AdvancedY(d, context) - d.length * Row > p.region.endRow * Row

\* Drop d is as a recycled drop of rain generator p must be.
Recycled(p, d) ==
    /\ d.y <= 0
    /\ d.length >= p.options.minDropLength
    /\ d.length <= p.options.maxDropLength
    /\ Len(d.characters) = d.length
    /\ d.column >= p.region.startColumn
    /\ d.column < p.region.startColumn + p.region.columns

\* C17: in an update of a bound rain generator, every drop that has left the
\* region after advancing and is still in the list after the update is
\* above the top (y <= 0), has a length in [minDropLength, maxDropLength],
\* a glyph list of that length and a column in [startColumn, startColumn +
\* columns); a list that holds the target number of drops keeps its length.
C17_DropsLeavingAreRecycled ==
    [][(/\ steps' # steps
        /\ genOp'.op = "update"
        /\ gen.pattern.kind = "rain"
        /\ gen.pattern.region # Null) =>
            LET before == gen.pattern.rainDrops
                after  == gen'.pattern.rainDrops
            IN  /\ \A i \in 1..Min(Len(before), Len(after)) :
                      LeftRegion(gen.pattern, before[i], genOp'.context)
                          => Recycled(gen'.pattern, after[i])
                /\ Len(before) = TargetDropCount(gen.pattern, gen.pattern.region)
                      => Len(after) = Len(before)]_vars

\* An animated update carried the drop of a two-column rain generator below
\* the region, and the drop is back above the top.
C17_Witness ==
    /\ genOp.op = "update"
    /\ genOp.context.isAnimating
    /\ gen.pattern.kind = "rain"
    /\ gen.pattern.region # Null
    /\ gen.pattern.region.columns = 2
    /\ Len(gen.pattern.rainDrops) = 1
    /\ gen.pattern.rainDrops[1].y <= 0
    /\ gen.pattern.rainDrops[1].lastMutationTime = genOp.context.animationTime
    /\ gen.pattern.rainDrops[1].column = gen.pattern.region.startColumn + 1

\* C18: the coordinator's dirty flag, once set, is cleared only by a frame
\* that draws: whenever an operation finds the flag set and leaves it
\* clear, the back-end received a render call during that operation.
C18_DirtyClearedOnlyByDrawing ==
    [][(/\ phase \in {"ready", "loop"}
        /\ phase' = phase
        /\ state.isDirty
        /\ ~state'.isDirty) => backend'.renders > backend.renders]_vars

\* C19: the content hash tells apart any two lists that differ by the
\* exchange of two different entries or by the value of one field (x, y,
\* glyph, color, opacity, scale, rotation) of one entry.
C19_HashSeparatesAlteredLists ==
    genOp.op \in {"swap", "change"} => Hash(genOut) # genOp.hashBefore

\* The two instances were constructed with the same seed and no setOptions
\* call changed the seed of either.
SameSeedThroughout ==
    /\ gen.constructedSeeds[1] = gen.constructedSeeds[2]
    /\ ~gen.seedChanged[1]
    /\ ~gen.seedChanged[2]

IsDoubledPermutation(table) ==
    /\ Len(table) = 512
    /\ {table[i] : i \in 1..256} = 0..255
    /\ \A i \in 1..256 : table[i + 256] = table[i]

\* C21: for every integer seed (zero, positive or negative) the table a
\* generator holds, built by _generatePermutations from a seed it was given,
\* has 512 entries, its first 256 entries are a permutation of 0..255 and
\* entry i + 256 equals entry i.
C21_TableIsDoubledPermutation ==
    phase = "noise" => IsDoubledPermutation(gen.permutations)

\* C22: after construction and after any sequence of option updates the
\* permutation table of a noise generator is the shuffle of its current
\* seed option.
C22_TableIsShuffleOfCurrentSeed ==
    phase = "noise" => gen.permutations = GeneratePermutations(gen.options.seed)

\* The fractal noise values of the last generate call are within [-1, 1],
\* every opacity (the normalized value) is within [0, 1] and every glyph is
\* one of the glyph set.
NoiseWithinRange ==
    /\ \A k \in 1..Len(genOp.samples) :
         /\ RLeq(RInt(-1), genOp.samples[k])
         /\ RLeq(genOp.samples[k], RInt(1))
    /\ \A k \in 1..Len(genOut) :
         /\ RLeq(RInt(0), genOut[k].opacity)
         /\ RLeq(genOut[k].opacity, RInt(1))
         /\ \E i \in 1..Len(gen.options.characters) :
              genOut[k].char = gen.options.characters[i]

\* C23: for every combination of non-negative octaves, persistence and
\* lacunarity (octaves = 0 and persistence = 0 included) and every sample
\* coordinate, the fractal noise value is within [-1, 1], the normalized
\* value within [0, 1] and the selected glyph index within the glyph set.
C23_NoiseWithinRange ==
    (phase = "noise" /\ genOp.op = "generate") => NoiseWithinRange

\* Math.floor(animationTime * 10) of a context.
TimeStep(context) == context.animationTime \div 100

\* The last two generate calls of the cell-noise generator.
TwoCellCalls == phase = "cell" /\ genOp.op = "generate" /\ genOp.previous # Null

\* C24: two generate calls of the cell-noise generator with the same seed,
\* glyph set and region whose animationTime values have the same
\* floor(animationTime * 10) return identical lists, and so do two calls
\* with the same glyph set and region and the same
\* seed + floor(animationTime * 10).
C24_CellNoiseSteppedInTime ==
    (/\ TwoCellCalls
     /\ genOp.previous.options.characters = gen.pattern.options.characters
     /\ genOp.previous.context.region = genOp.context.region
     /\ genOp.previous.options.seed + TimeStep(genOp.previous.context)
          = gen.pattern.options.seed + TimeStep(genOp.context))
        => genOut = genOp.previous.out

\* Two calls with the same seed at different times within one tenth of a
\* time unit returned the same non-empty list.
C24_Witness ==
    /\ TwoCellCalls
    /\ genOp.previous.options = gen.pattern.options
    /\ genOp.previous.context.region = genOp.context.region
    /\ genOp.previous.context.animationTime # genOp.context.animationTime
    /\ TimeStep(genOp.previous.context) = TimeStep(genOp.context)
    /\ genOut = genOp.previous.out
    /\ Len(genOut) > 0

\* C25: with a negative density (floor(columns * density) < 0) the rain
\* generator's initialize, update and generate complete without raising an
\* error.
C25_NegativeDensityRaisesNothing ==
    (/\ phase = "bench"
     /\ gen.pattern.kind = "rain"
     /\ gen.region # Null
     /\ TargetDropCount(gen.pattern, gen.region) < 0
     /\ genOp.op \in {"initialize", "update", "generate"})
        => gen.pattern.raised = ""

\* The facade's operations other than init.
FacadeOps == {"startAnimation", "stopAnimation", "setPattern", "setOptions", "destroy"}

\* C26 as stated: a facade operation called while the facade holds no
\* coordinator raises 'Renderer is not initialized - call init() first.',
\* and called while it holds one it raises nothing and returns the facade.
C26_GuardedAndReturnsFacade ==
    (phase = "facade" /\ lastOp.op \in FacadeOps) =>
        IF lastOp.held
        THEN ~lastOp.threw /\ lastOp.returned = "facade"
        ELSE lastOp.threw /\ lastOp.message = NotInitialized

\* What the coordinator's own operation makes of the world.
Forwarded(name) ==
    CASE name = "startAnimation" -> \E now \in Clock : World' = StartAnimation(World, now)
      [] name = "stopAnimation"  -> World' = StopAnimation(World)
      [] name = "setPattern"     -> \E pattern \in SwapPatterns :
                                        World' \in SetPattern(World, pattern)
      [] name = "setOptions"     -> \E newOptions \in NewOptions, now \in Clock :
                                        World' \in SetOptions(World, newOptions, now)
      [] name = "destroy"        -> /\ state' = Null
                                    /\ [World' EXCEPT !.s = Destroy(World).s] = Destroy(World)

\* C26 amended: a facade operation called before init, or after destroy and
\* before a new init, raises the error and changes nothing; called on an
\* initialized facade it is forwarded to the coordinator, startAnimation,
\* stopAnimation, setPattern and setOptions return the facade, and destroy
\* returns nothing and leaves the facade without a coordinator.
C26_GuardedForwardedFluent ==
    [][(phase = "facade" /\ lastOp'.op \in FacadeOps /\ steps' = steps + 1) =>
          IF state = Null
          THEN /\ lastOp'.threw
               /\ lastOp'.message = NotInitialized
               /\ UNCHANGED coordWorld
          ELSE /\ ~lastOp'.threw
               /\ lastOp'.returned = (IF lastOp'.op = "destroy" THEN "nothing" ELSE "facade")
               /\ Forwarded(lastOp'.op)]_vars

\* An operation called after init and destroy raised the error.
C26_Witness ==
    /\ phase = "facade"
    /\ lastOp.op \in FacadeOps
    /\ lastOp.threw
    /\ state = Null
    /\ retired # Null

\* The last two calls were region computations, with no input changed
\* between them.
TwoRegionCalls ==
    phase = "region" /\ genOp.op = "calculate" /\ genOp.previousOp = "calculate"

\* C27: two consecutive region computations with unchanged surface size,
\* font size, padding, explicit spacing and glyph set return identical
\* values for every field of the region.
C27_RegionIsIdempotent ==
    TwoRegionCalls =>
        /\ genOut = genOp.previous
        /\ \A k \in {"columns", "rows", "charSpacingX", "charSpacingY"} :
              genOut[k] = genOp.previous[k]

\* The region was computed twice in a row after the font size had been
\* changed to one the temp context did not hold.
C27_Witness ==
    /\ TwoRegionCalls
    /\ steps = 3
    /\ gen.inputs.fontSize = 20
    /\ genOut = genOp.previous
    /\ genOut.columns > 0

\* The characters the drops of generator p put on a frame, in the order of
\* generate.
DropCharacters(p) ==
    LET RECURSIVE Drops(_)
        Drops(i) == IF i > Len(p.rainDrops) THEN <<>>
                    ELSE RenderRainDrop(p, p.rainDrops[i]) \o Drops(i + 1)
    IN  Drops(1)

\* A list with every opacity replaced.
WithOpacity(list, opacity) ==
    [i \in 1..Len(list) |-> [list[i] EXCEPT !.opacity = opacity]]

\* A generate call of the rain generator directly follows another one that
\* returned the characters of its drops.
TwoRainFrames ==
    /\ phase = "bench"
    /\ gen.pattern.kind = "rain"
    /\ genOp.op = "generate"
    /\ genOp'.op = "generate"
    /\ gen.pattern.region # Null

\* C28: the list generate returns at frame n is the drop characters of frame
\* n - 1, in order, with their opacity replaced by fadeOpacity, followed by
\* the drop characters of frame n; with fadeOpacity <= 0 it is the drop
\* characters of frame n alone.
C28_TrailIsPreviousFrame ==
    [][TwoRainFrames =>
          genOut' = (IF RLess(RInt(0), gen.pattern.options.fadeOpacity)
                     THEN WithOpacity(DropCharacters(gen.pattern),
                                      gen.pattern.options.fadeOpacity)
                     ELSE <<>>)
                    \o DropCharacters(gen'.pattern)]_vars

\* initialize(region) on a generator that holds drops and is bound to a
\* region whose columns and rows both differ from the new one's by at most 2.
KeepsDrops(p, region) ==
    /\ Len(p.rainDrops) > 0
    /\ p.region # Null
    /\ Abs(p.region.columns - region.columns) <= 2
    /\ Abs(p.region.rows - region.rows) <= 2

\* C29: a re-initialization with a region of similar size (columns and rows
\* each within 2) leaves every drop that is kept its y, speed, length and
\* glyphs and puts its column inside [startColumn, startColumn + columns)
\* of the new region; any other initialization discards the drops and the
\* previous-frame buffer and builds the population from scratch.
C29_SimilarRegionKeepsDrops ==
    [][(phase = "bench" /\ gen.pattern.kind = "rain" /\ genOp'.op = "initialize") =>
          LET old == gen.pattern
              new == gen'.pattern
              region == new.region
          IN  IF KeepsDrops(old, region)
              THEN \A i \in 1..Min(Len(old.rainDrops), Len(new.rainDrops)) :
                      /\ new.rainDrops[i].y = old.rainDrops[i].y
                      /\ new.rainDrops[i].speed = old.rainDrops[i].speed
                      /\ new.rainDrops[i].length = old.rainDrops[i].length
                      /\ new.rainDrops[i].characters = old.rainDrops[i].characters
                      /\ new.rainDrops[i].column >= region.startColumn
                      /\ new.rainDrops[i].column < region.startColumn + region.columns
              ELSE /\ new.lastFrameCharacters = <<>>
                   /\ new.rainDrops \in
                        InitializeRainDrops([old EXCEPT !.region = region,
                                                        !.rainDrops = <<>>])]_vars

\* A re-initialization kept a drop together with the previous-frame buffer
\* (a rebuilt population starts with an empty buffer).
C29_Witness ==
    /\ phase = "bench"
    /\ gen.pattern.kind = "rain"
    /\ genOp.op = "initialize"
    /\ Len(gen.pattern.rainDrops) > 0
    /\ Len(gen.pattern.lastFrameCharacters) > 0

\* C30: every entry the rain generator's generate returns, trail included,
\* lies inside the bounds of the region the generator is bound to:
\* startColumn <= x / spacingX <= endColumn and
\* startRow <= y / spacingY <= endRow.
C30_RainWithinRegion ==
    (/\ phase = "bench"
     /\ gen.pattern.kind = "rain"
     /\ genOp.op = "generate"
     /\ gen.pattern.region # Null) =>
        LET region == gen.pattern.region
        IN  \A k \in 1..Len(genOut) :
               /\ genOut[k].x # NaN
               /\ region.startColumn * region.charSpacingX <= genOut[k].x
               /\ genOut[k].x <= region.endColumn * region.charSpacingX
               /\ region.startRow * region.charSpacingY <= genOut[k].y
               /\ genOut[k].y <= region.endRow * region.charSpacingY

\* ---------------------------------------------------------------- C31
\* The entries of a list the baseline back-end draws: those positioned on
\* the canvas.
Visible(characters, region) ==
    LET OnCanvas(c) == /\ c.x # NaN
                       /\ ~(c.x < 0 \/ c.x >= region.canvasWidth
                            \/ c.y < 0 \/ c.y >= region.canvasHeight)
    IN  SelectSeq(characters, OnCanvas)

\* The step is a render call: the generator was updated once, then asked
\* once for its list with the same context; clear and render were called
\* together; and when they were, the surface shows the frame's list only.
FrameIsWholeAndAlone ==
    (steps' = steps + 1 /\ lastOp'.op = "render") =>
        LET context == PatternContext(state'.animationTime, lastOp'.deltaTime,
                                      state.region, state.options.animated,
                                      state.options.animationSpeed)
        IN  /\ \E updated \in PatternUpdate(state.pattern, context) :
                 \E pair \in PatternGenerate(updated, context) :
                    /\ frame'.characters = pair[2]
                    /\ [state'.pattern EXCEPT !.isDirty = pair[1].isDirty] = pair[1]
            /\ lastOp'.clears = lastOp'.renders
            /\ lastOp'.renders = 1 =>
                  backend'.surface = Visible(frame'.characters, state.region)

\* C31: within every frame the coordinator calls the active generator's
\* update exactly once and then its generate exactly once with the same
\* context, and whenever the frame draws, clear is called immediately before
\* render, so that the surface after a drawn frame shows exactly that frame's
\* character list and nothing accumulated from earlier frames.
C31_FrameShowsItsListOnly == [][FrameIsWholeAndAlone]_vars

\* ---------------------------------------------------------------- C32
\* This step ran a frame: render was called by the caller, or by the frame
\* callback of a coordinator that animates.
FrameStep ==
    /\ steps' = steps + 1
    /\ \/ lastOp'.op = "render"
       \/ lastOp'.op = "animate" /\ state.options.animated

\* The context the frame of this step handed to the generator.
FrameContext ==
    PatternContext(state'.animationTime, lastOp'.time - state.lastTime,
                   state.region, state.options.animated,
                   state.options.animationSpeed)

\* C32: a frame rendered while the coordinator is not animating leaves
\* animationTime unchanged and advances no rain drop (after the generator's
\* update each drop's y is unchanged unless the drop was recycled); while
\* animating, animationTime grows by deltaTime * animationSpeed and the y of
\* each drop that was not recycled by speed * animationSpeed * deltaTime.
C32_AdvanceOnlyWhileAnimating ==
    [][FrameStep =>
        LET context == FrameContext
            step == IF state.options.animated
                    THEN context.deltaTime * state.options.animationSpeed
                    ELSE 0
        IN  /\ state'.animationTime = state.animationTime + step
            /\ (state.pattern.kind = "rain" /\ state.pattern.region # Null) =>
                 \A updated \in PatternUpdate(state.pattern, context) :
                    \A i \in 1..Min(Len(state.pattern.rainDrops), Len(updated.rainDrops)) :
                       LET before == state.pattern.rainDrops[i]
                           after  == updated.rainDrops[i]
                       IN  \/ LeftRegion(state.pattern, before, context)
                           \/ after.y = before.y + before.speed * step]_vars

\* An animating coordinator rendered a frame 50 ms after the last one, and
\* its rain drop is a tenth of a half row below a position drops are created
\* or recycled at: it advanced and was not recycled.
C32_Witness ==
    /\ phase = "frame"
    /\ lastOp.op = "render"
    /\ lastOp.deltaTime = 50
    /\ state.options.animated
    /\ state.animationTime >= 50
    /\ state.pattern.kind = "rain"
    /\ Len(state.pattern.rainDrops) = 1
    /\ state.pattern.rainDrops[1].y % (Row \div 2) = 50 * state.pattern.rainDrops[1].speed

\* ---------------------------------------------------------------- C33
\* C33: the baseline back-end's render leaves the drawing state as it found
\* it: after render returns, for any character list (any mix of color,
\* opacity, scale and rotation, with or without clipping) the global alpha
\* is 1, the fill style is the configured base color, and every save of the
\* drawing state (clip and per-character transform) was matched by a
\* restore, so that no clip and no transform stay behind.
C33_RenderRestoresDrawingState ==
    (phase = "canvas" /\ genOp.op = "render") =>
        /\ gen.context.globalAlpha = RInt(1)
        /\ gen.context.fillStyle = gen.options.color
        /\ Len(gen.context.saved) = 0
        /\ ~gen.context.clip
        /\ gen.context.transform = <<>>

\* A render with clipping drew two entries: one with a color, an opacity
\* and a rotation, one scaled.
C33_Witness ==
    /\ phase = "canvas"
    /\ genOp.op = "render"
    /\ genOp.region.startColumn # 0
    /\ Len(genOut) = 2
    /\ gen.context.texts = genOp.texts + 2
    /\ genOut[1].color # "" /\ genOut[1].opacity = Rat(1, 2)
    /\ genOut[1].rotation # UndefinedNum
    /\ genOut[2].scale # UndefinedNum

\* ---------------------------------------------------------------- C34
\* C34: for a padding p >= 0 the computed region's bounds extend beyond the
\* visible grid, never inside it: startColumn <= 0, startRow <= 0,
\* endColumn >= columns and endRow >= rows, with equality exactly when p = 0.
C34_PaddingExtendsBeyondGrid ==
    (phase = "region" /\ genOp.op = "calculate" /\ gen.inputs.padding >= 0) =>
        /\ genOut.startColumn <= 0
        /\ genOut.startRow <= 0
        /\ genOut.endColumn >= genOut.columns
        /\ genOut.endRow >= genOut.rows
        /\ (gen.inputs.padding = 0) <=>
              /\ genOut.startColumn = 0
              /\ genOut.startRow = 0
              /\ genOut.endColumn = genOut.columns
              /\ genOut.endRow = genOut.rows

\* ---------------------------------------------------------------- C35
\* floor(animationTime * 10), animationTime being kept in milliseconds.
Bucket(animationTime) == animationTime \div 100

\* C35: while the coordinator animates the cell-noise generator and no
\* option change, resize or pattern swap occurs, the back-end is redrawn at
\* most once for each distinct value of floor(animationTime * 10): a frame
\* that follows a frame and whose animationTime falls in the same tenth as
\* that frame's is skipped (no clear, no render, the surface untouched).
C35_OneRedrawPerTenth ==
    [][(/\ FrameStep
        /\ state.options.animated
        /\ state.pattern.kind = "static"
        /\ frame # Null
        /\ lastOp.op \in {"render", "animate"}
        /\ Bucket(state'.animationTime) = Bucket(state.animationTime)) =>
            /\ lastOp'.renders = 0
            /\ lastOp'.clears = 0
            /\ backend' = backend]_vars

\* An animating coordinator with the cell-noise generator drew a frame and
\* then skipped one that came 50 ms after another, in the same tenth.
C35_Witness ==
    /\ phase = "frame"
    /\ lastOp.op = "render"
    /\ lastOp.deltaTime = 50
    /\ lastOp.renders = 0
    /\ backend.renders >= 1
    /\ retired = Null
    /\ state.options.animated
    /\ state.pattern.kind = "static"
    /\ state.animationTime = 50
    /\ Len(frame.characters) > 0

\* ---------------------------------------------------------------- C36
\* C36: in the render coordinator at most one frame callback is scheduled
\* with the host at any time (and so at most one animation loop is active)
\* after any sequence of startAnimation, stopAnimation, setOptions and frame
\* callbacks, including startAnimation called while already animating and
\* stop followed immediately by start.
C36_AtMostOneFrameScheduled ==
    phase = "loop" => Cardinality(host.pending) <= 1

\* ---------------------------------------------------------------- C37
\* C37: for every configuration, including an empty glyph set or glyphs
\* whose measured width is zero with no explicit spacing, the computed
\* region has strictly positive spacingX and spacingY and finite,
\* non-negative columns and rows (so that the loops over the region's
\* columns and rows end).
C37_RegionIsFinite ==
    (phase = "region" /\ genOp.op = "calculate") =>
        /\ genOut.charSpacingX > 0
        /\ genOut.charSpacingY > 0
        /\ genOut.columns # Infinity /\ genOut.columns # NaN /\ genOut.columns >= 0
        /\ genOut.rows # Infinity /\ genOut.rows # NaN /\ genOut.rows >= 0

\* ---------------------------------------------------------------- C38
\* C38: operations on one render coordinator never change the behaviour of
\* another: after any sequence of calls on instance A (including destroy
\* followed by further startAnimation, stopAnimation or setOptions calls on
\* A), a coordinator B constructed afterwards with the same arguments has
\* the options it would have had if A had never existed: the defaults
\* overridden by the arguments, in particular animated = false unless given.
C38_LaterCoordinatorHasPristineDefaults ==
    (phase = "shared" /\ genOut # Null) =>
        /\ genOut.options = Merge(DefaultOptions, gen.args[2])
        /\ "animated" \notin DOMAIN gen.args[2] => ~genOut.options.animated

\* ---------------------------------------------------------------- C39
\* C39: after destroy on the ASCIIGround facade, no animation loop (no frame
\* request with the host), no resize listener and no coordinator created
\* through that facade remains, for any preceding sequence of init,
\* startAnimation, stopAnimation, setPattern and setOptions calls,
\* including init called more than once without a destroy in between.
C39_DestroyLeavesNothingBehind ==
    (phase = "facade" /\ lastOp.op = "destroy" /\ ~lastOp.threw) =>
        /\ state = Null
        /\ host.resizeListeners = 0
        /\ host.pending = {}

====
